---------------------------- MODULE Spec2Model ----------------------------
(***************************************************************************)
(* A model of sgmlish: the raw SGML recognizers, the event parser, the     *)
(* marked-section keyword logic and the end-tag normalization transform.   *)
(*                                                                         *)
(* Strings are sequences of one-character strings.  A recognizer takes the *)
(* remaining input and returns a nom result: st is "Ok", "Error" (the      *)
(* recoverable nom::Err::Error) or "Failure" (nom::Err::Failure); rest is  *)
(* the remaining input (for an error: the slice the error points at); out  *)
(* is the output; err is the external error a Failure carries, if any.     *)
(***************************************************************************)
EXTENDS Integers, Sequences, FiniteSets, TLC

VARIABLES
    pc,         \* position of the driver that calls the library
    input,      \* the source text (or fragment) handed to the library
    keywords,   \* the status keyword string of the marked section in input
    config,     \* the ParserConfig in use
    parsed,     \* the result of the last parse
    shown,      \* the text produced by Display for the parsed fragment
    reparsed,   \* the result of parsing that text again
    fragment,   \* normalize_end_tags: the fragment being normalized
    idx,        \* normalize_end_tags: events idx+1..len were visited (reverse pass)
    stack,      \* normalize_end_tags: names of the pending end tags
    next_insertion_point,
    end_xml_empty_element,
    deletions,  \* Transform: the indices recorded by remove_at
    insertions, \* Transform::insertions recorded so far
    outcome,    \* normalize_end_tags: the value returned
    de,         \* the SgmlDeserializer
    ret,        \* the value or error the last deserializer call returned
    access,     \* the MapAccess or SeqAccess handed to the visitor
    visited     \* the keys, values and elements the visitor received

vars == <<pc, input, keywords, config, parsed, shown, reparsed, fragment, idx, stack,
          next_insertion_point, end_xml_empty_element, insertions, deletions,
          outcome, de, ret, access, visited>>

-----------------------------------------------------------------------------
(* Strings *)

Take(s, n) == SubSeq(s, 1, n)
Drop(s, n) == SubSeq(s, n + 1, Len(s))
StartsWith(s, p) == Len(s) >= Len(p) /\ SubSeq(s, 1, Len(p)) = p
Min(a, b) == IF a <= b THEN a ELSE b

\* str::find: the offset of the first occurrence of p in s, or -1
RECURSIVE FindFrom(_, _, _)
FindFrom(s, p, k) ==
    IF k + Len(p) > Len(s) THEN -1
    ELSE IF SubSeq(s, k + 1, k + Len(p)) = p THEN k
    ELSE FindFrom(s, p, k + 1)
Find(s, p) == FindFrom(s, p, 0)

\* the number of leading characters of s that are in S (in = TRUE) or
\* not in S (in = FALSE)
RECURSIVE PrefixLen(_, _, _)
PrefixLen(s, S, in) ==
    IF s = <<>> \/ ((s[1] \in S) # in) THEN 0
    ELSE 1 + PrefixLen(Tail(s), S, in)

RECURSIVE Flatten(_)
Flatten(ss) == IF ss = <<>> THEN <<>> ELSE Head(ss) \o Flatten(Tail(ss))

LowerSeq == <<"a","b","c","d","e","f","g","h","i","j","k","l","m",
              "n","o","p","q","r","s","t","u","v","w","x","y","z">>
UpperSeq == <<"A","B","C","D","E","F","G","H","I","J","K","L","M",
              "N","O","P","Q","R","S","T","U","V","W","X","Y","Z">>
Range(f) == {f[i] : i \in DOMAIN f}
Lowercase == Range(LowerSeq)
Uppercase == Range(UpperSeq)
Digits == {"0","1","2","3","4","5","6","7","8","9"}

is_sgml_whitespace(c) == c \in {" ", "\t", "\r", "\n"}
Whitespace == {" ", "\t", "\r", "\n"}
is_blank(s) == \A i \in DOMAIN s : is_sgml_whitespace(s[i])

\* str::trim_matches(is_sgml_whitespace)
RECURSIVE TrimEnd(_)
TrimEnd(s) ==
    IF s # <<>> /\ is_sgml_whitespace(s[Len(s)]) THEN TrimEnd(Take(s, Len(s) - 1))
    ELSE s
trim_matches(s) == TrimEnd(Drop(s, PrefixLen(s, Whitespace, TRUE)))

\* the letters outside ASCII that names are drawn from, written by code
\* point: u with diaeresis, U with diaeresis, sharp s, and the CJK letter
\* U+984C, which has no case
NonAsciiLetters == {"U+00FC", "U+00DC", "U+00DF", "U+984C"}

\* char::is_alphabetic
is_alphabetic(c) == c \in Lowercase \cup Uppercase \cup NonAsciiLetters

is_name_start_char(c) == is_alphabetic(c)
\* char::is_alphanumeric, or one of `.`, `-`, `_`, `:`
NameChars ==
    Lowercase \cup Uppercase \cup NonAsciiLetters \cup Digits \cup {".", "-", "_", ":"}
is_name_char(c) == c \in NameChars

-----------------------------------------------------------------------------
(* nom results and combinators *)

NoError == [kind |-> "None"]
NomError == [kind |-> "Nom"]
Ok(rest, out) == [st |-> "Ok", rest |-> rest, out |-> out, err |-> NoError]
Error(at) == [st |-> "Error", rest |-> at, out |-> <<>>, err |-> NomError]
Failure(at) == [st |-> "Failure", rest |-> at, out |-> <<>>, err |-> NomError]
cut(r) == IF r.st = "Error" THEN [r EXCEPT !.st = "Failure"] ELSE r

\* a value bound for the step K that follows it
Let(v, K(_)) == K(v)

\* sequencing (tuple, preceded, terminated): the step K that follows a
\* result r, which is returned as it is unless it is Ok
AndThen(r, K(_)) == IF r.st # "Ok" THEN r ELSE K(r)

\* alt: the alternative is tried when r is the recoverable Error
OrElse(r, alternative) == IF r.st # "Error" THEN r ELSE alternative

\* map: F applied to the output of an Ok result
MapOk(r, F(_)) == IF r.st # "Ok" THEN r ELSE Ok(r.rest, F(r.out))

tag(t, s) == IF StartsWith(s, t) THEN Ok(Drop(s, Len(t)), t) ELSE Error(s)

\* recognize: the text the recognizer consumed, instead of its output
recognize(s, r) == IF r.st = "Ok" THEN Ok(r.rest, Take(s, Len(s) - Len(r.rest))) ELSE r

\* many0: the outputs of P applied until it returns Error; a Failure is
\* passed on, and an application that consumes nothing is an Error
RECURSIVE many0(_, _)
many0(P(_), s) ==
    Let(P(s), LAMBDA r :
        IF r.st = "Error" THEN Ok(s, <<>>)
        ELSE IF r.st = "Failure" THEN r
        ELSE IF Len(r.rest) = Len(s) THEN Error(s)
        ELSE MapOk(many0(P, r.rest), LAMBDA out : <<r.out>> \o out))

\* many1: like many0, but the first application must succeed
many1(P(_), s) ==
    AndThen(P(s), LAMBDA r :
        IF Len(r.rest) = Len(s) THEN Error(s)
        ELSE MapOk(many0(P, r.rest), LAMBDA out : <<r.out>> \o out))

-----------------------------------------------------------------------------
(* parser/util.rs *)

take_until_terminated(delimiter, s) ==
    LET n == Find(s, delimiter) IN
    IF n < 0 THEN Failure(s)
    ELSE Ok(Drop(s, n + Len(delimiter)), Take(s, n))

spaces(s) == Drop(s, PrefixLen(s, Whitespace, TRUE))


-----------------------------------------------------------------------------
(* parser/raw.rs *)

name(s) ==
    IF s # <<>> /\ is_name_start_char(s[1])
    THEN LET n == 1 + PrefixLen(Tail(s), NameChars, TRUE) IN Ok(Drop(s, n), Take(s, n))
    ELSE Error(s)

name_start(s) ==
    IF s # <<>> /\ is_name_start_char(s[1]) THEN Ok(Tail(s), Take(s, 1)) ELSE Error(s)

\* `-- example --`
comment(s) ==
    IF StartsWith(s, <<"-", "-">>) THEN take_until_terminated(<<"-", "-">>, Drop(s, 2))
    ELSE Error(s)

\* pair(spaces, comment), as repeated by many0_count in comment_declaration
spaces_comment(s) == comment(spaces(s))

comment_declaration(s) ==
    IF ~StartsWith(s, <<"<", "!">>) THEN Error(s)
    ELSE Let(Drop(s, 2), LAMBDA s1 :
         IF s1 = <<>> \/ s1[1] \notin {"-", ">"} THEN Error(s1)
         ELSE AndThen(cut(Let(comment(s1), LAMBDA first :
                          IF first.st = "Error" THEN Ok(s1, <<>>)
                          ELSE IF first.st = "Failure" THEN first
                          ELSE many0(spaces_comment, first.rest))),
                      LAMBDA body :
                          IF StartsWith(body.rest, <<">">>)
                          THEN Ok(Tail(body.rest), Take(s, Len(s) - Len(body.rest) + 1))
                          ELSE Failure(body.rest)))

quoted_attribute_value(s) ==
    IF StartsWith(s, <<"'">>) THEN take_until_terminated(<<"'">>, Tail(s))
    ELSE IF StartsWith(s, <<"\"">>) THEN take_until_terminated(<<"\"">>, Tail(s))
    ELSE Error(s)

is_not(S, s) ==
    LET n == PrefixLen(s, S, FALSE) IN
    IF n = 0 THEN Error(s) ELSE Ok(Drop(s, n), Take(s, n))

RECURSIVE markup_declaration(_), declaration_subset(_)

\* one item of a markup declaration's body, after the spaces before it
markup_declaration_item(s0) ==
    Let(spaces(s0), LAMBDA s :
        OrElse(comment(s),
        OrElse(quoted_attribute_value(s),
        OrElse(declaration_subset(s),
               IF StartsWith(s, <<"-">>) /\ ~StartsWith(s, <<"-", "-">>)
               THEN Ok(Tail(s), <<"-">>)
               ELSE is_not({"<", ">", "\"", "'", "[", "-", " ", "\n", "\r", "\t"}, s)))))

\* `<!DOCTYPE example>` gives out = <<"DOCTYPE", "example">>
markup_declaration(s) ==
    IF ~StartsWith(s, <<"<", "!">>) THEN Error(s)
    ELSE AndThen(name(Drop(s, 2)), LAMBDA kw :
         Let(spaces(kw.rest), LAMBDA s1 :
         AndThen(cut(many0(markup_declaration_item, s1)), LAMBDA items :
         Let(spaces(items.rest), LAMBDA s2 :
             IF StartsWith(s2, <<">">>)
             THEN Ok(Tail(s2), <<kw.out, Take(s1, Len(s1) - Len(items.rest))>>)
             ELSE Failure(s2)))))

declaration_subset_item(s) ==
    OrElse(comment(s),
    OrElse(quoted_attribute_value(s),
    OrElse(declaration_subset(s),
    OrElse(recognize(s, markup_declaration(s)),
           is_not({"<", ">", "\"", "'", "[", "]", "-"}, s)))))

declaration_subset(s) ==
    IF ~StartsWith(s, <<"[">>) THEN Error(s)
    ELSE AndThen(many0(declaration_subset_item, Tail(s)), LAMBDA items :
         IF StartsWith(items.rest, <<"]">>)
         THEN Ok(Tail(items.rest), Take(Tail(s), Len(s) - 1 - Len(items.rest)))
         ELSE Failure(items.rest))

MARKED_SECTION_START == <<"<", "!", "[">>
MARKED_SECTION_END == <<"]", "]", ">">>

\* `<![foo[` gives out = "foo" (trimmed)
marked_section_start_and_keywords(s) ==
    IF ~StartsWith(s, MARKED_SECTION_START) THEN Error(s)
    ELSE LET s1 == Drop(s, 3)
             n == PrefixLen(s1, {"[", "]", "<", ">", "!"}, FALSE)
         IN  IF StartsWith(Drop(s1, n), <<"[">>)
             THEN Ok(Drop(s1, n + 1), trim_matches(Take(s1, n)))
             ELSE Failure(Drop(s1, n))

marked_section_body_character_data(s) == take_until_terminated(MARKED_SECTION_END, s)

\* an IGNORE body that ends at the first `]]>`, as a CDATA body does
marked_section_body_ignore_first_end(s) == marked_section_body_character_data(s)

RECURSIVE marked_section_body_ignore(_)
marked_section_body_ignore(s) ==
    AndThen(marked_section_body_character_data(s), LAMBDA close :
    Let(Find(close.out, MARKED_SECTION_START), LAMBDA n :
        IF n < 0 THEN close
        ELSE AndThen(marked_section_body_ignore(Drop(s, n + Len(MARKED_SECTION_START))),
                     LAMBDA pair :
             AndThen(marked_section_body_ignore(pair.rest), LAMBDA final :
                 Ok(final.rest,
                    Take(s, Len(s) - Len(final.rest) - Len(MARKED_SECTION_END)))))))

marked_section_end(s) == tag(MARKED_SECTION_END, s)

raw_processing_instruction(s) ==
    IF ~StartsWith(s, <<"<", "?">>) THEN Error(s)
    ELSE recognize(s, take_until_terminated(<<">">>, Drop(s, 2)))

\* plain_text: up to the first `<` (or `]]>` when mse = "StopParsing")
plain_text(s, mse) ==
    LET lt == Find(s, <<"<">>)
        next_tag == IF lt < 0 THEN Len(s) ELSE lt
        mend == Find(s, MARKED_SECTION_END)
        split_pos == IF mse = "StopParsing"
                     THEN Min(IF mend < 0 THEN next_tag ELSE mend, next_tag)
                     ELSE next_tag
    IN  IF split_pos = 0 THEN Error(s) ELSE Ok(Drop(s, split_pos), Take(s, split_pos))

\* what may not follow a `<` that is absorbed as text
TagMarker(s) ==
    \/ StartsWith(s, <<"?">>)
    \/ StartsWith(s, <<"!", "-">>)
    \/ StartsWith(s, <<"!", "[">>)
    \/ StartsWith(s, <<"!">>) /\ name_start(Tail(s)).st = "Ok"
    \/ LET t == IF StartsWith(s, <<"/">>) THEN Tail(s) ELSE s IN
       name_start(t).st = "Ok" \/ StartsWith(t, <<">">>)

\* the rest left by opt(plain_text)
AfterPlainText(s, mse) == Let(plain_text(s, mse), LAMBDA p : IF p.st = "Ok" THEN p.rest ELSE s)

\* many0_count(tuple((tag("<"), not(markers), opt(plain_text)))): the rest
RECURSIVE StrayLessThans(_, _)
StrayLessThans(s, mse) ==
    IF StartsWith(s, <<"<">>) /\ ~TagMarker(Tail(s))
    THEN StrayLessThans(AfterPlainText(Tail(s), mse), mse)
    ELSE s

raw_text(s, mse) ==
    Let(StrayLessThans(AfterPlainText(s, mse), mse), LAMBDA rest :
        IF Len(rest) = Len(s) THEN Error(s) ELSE Ok(rest, Take(s, Len(s) - Len(rest))))

raw_open_start_tag(s) == IF StartsWith(s, <<"<">>) THEN name(Tail(s)) ELSE Error(s)
raw_close_start_tag(s) == tag(<<">">>, s)
raw_xml_close_empty_element(s) == tag(<<"/", ">">>, s)
raw_empty_start_tag(s) == tag(<<"<", ">">>, s)

unquoted_attribute_value(s) ==
    IF s = <<>> \/ s[1] \in {"\"", "'"} THEN Error(s)
    ELSE is_not({"\"", "'", ">", " ", "\t", "\r", "\n"}, s)

\* out = <<value, quoted>>
attribute_value(s) ==
    Let(unquoted_attribute_value(s), LAMBDA u :
        IF u.st = "Ok" THEN Ok(u.rest, <<u.out, FALSE>>)
        ELSE MapOk(quoted_attribute_value(s), LAMBDA q : <<q, TRUE>>))

\* `</foo>` gives out = "foo"; `</>` gives out = "" (name.unwrap_or_default())
raw_end_tag(s) ==
    IF ~StartsWith(s, <<"<", "/">>) THEN Error(s)
    ELSE Let(name(Drop(s, 2)), LAMBDA n :
         Let(IF n.st = "Ok" THEN spaces(n.rest) ELSE Drop(s, 2), LAMBDA s1 :
             IF StartsWith(s1, <<">">>)
             THEN Ok(Tail(s1), IF n.st = "Ok" THEN n.out ELSE <<>>)
             ELSE Failure(s1)))

\* one comment declaration or one non-empty run of spaces
comment_or_space(s) ==
    OrElse(comment_declaration(s),
           IF s # <<>> /\ is_sgml_whitespace(s[1]) THEN Ok(spaces(s), <<>>)
           ELSE Error(s))

comments_and_spaces(s) == many0(comment_or_space, s)

-----------------------------------------------------------------------------
(* entities.rs *)

\* the printable ASCII characters, code points 32..126 (the grave accent,
\* which the lexer of this language rejects, is spelled out)
Ascii == <<" ","!","\"","#","$","%","&","'","(",")","*","+",",","-",".","/",
           "0","1","2","3","4","5","6","7","8","9",":",";","<","=",">","?",
           "@","A","B","C","D","E","F","G","H","I","J","K","L","M","N","O",
           "P","Q","R","S","T","U","V","W","X","Y","Z","[","\\","]","^","_",
           "GRAVE","a","b","c","d","e","f","g","h","i","j","k","l","m","n","o",
           "p","q","r","s","t","u","v","w","x","y","z","{","|","}","~">>

\* char::from_u32: <<c>> for a Unicode scalar value, <<>> for None.  A
\* character outside printable ASCII and SGML whitespace is written "U+".
char_from_u32(n) ==
    IF n >= 1114112 \/ (n >= 55296 /\ n <= 57343) THEN <<>>
    ELSE IF n >= 32 /\ n <= 126 THEN <<Ascii[n - 31]>>
    ELSE IF n = 9 THEN <<"\t">>
    ELSE IF n = 10 THEN <<"\n">>
    ELSE IF n = 13 THEN <<"\r">>
    ELSE <<"U+">>

HexDigits == Digits \cup {"a","b","c","d","e","f","A","B","C","D","E","F"}
DigitValue(c) ==
    CHOOSE v \in 0..15 :
        \/ v <= 9 /\ c = Ascii[v + 17]
        \/ v >= 10 /\ c \in {Ascii[v + 24], Ascii[v + 56]}

\* the value of a digit string in the given radix; every value that does
\* not fit a char (which includes every value that overflows u32) is
\* reported as 1114112
RECURSIVE ParseCode(_, _, _)
ParseCode(ds, radix, acc) ==
    IF ds = <<>> THEN acc
    ELSE ParseCode(Tail(ds), radix, Min(acc * radix + DigitValue(ds[1]), 1114112))

\* out = [char |-> c] for a character reference
char_ref(s) ==
    IF ~StartsWith(s, <<"#">>) THEN Error(s)
    ELSE LET s1 == Tail(s)
             nd == PrefixLen(s1, Digits, TRUE)
             nh == PrefixLen(Tail(s1), HexDigits, TRUE)
         IN  IF nd = 0 /\ ~(StartsWith(s1, <<"x">>) /\ nh > 0) THEN Error(s1)
             ELSE Let(char_from_u32(IF nd > 0 THEN ParseCode(Take(s1, nd), 10, 0)
                                    ELSE ParseCode(Take(Tail(s1), nh), 16, 0)),
                      LAMBDA c :
                          IF c = <<>> THEN Error(s)
                          ELSE Ok(IF nd > 0 THEN Drop(s1, nd) ELSE Drop(s1, nh + 1),
                                  [char |-> c[1]]))

\* an entity that accepts the empty name as well
entity_empty_name(s) ==
    OrElse(AndThen(name(IF StartsWith(s, <<"#">>) THEN Tail(s) ELSE s), LAMBDA n :
               Ok(n.rest, [entity |-> Take(s, Len(s) - Len(n.rest))])),
           Ok(s, [entity |-> <<>>]))

\* out = [entity |-> name] for an entity reference (`#` included)
entity(s) ==
    AndThen(name(IF StartsWith(s, <<"#">>) THEN Tail(s) ELSE s), LAMBDA n :
        Ok(n.rest, [entity |-> Take(s, Len(s) - Len(n.rest))]))

entity_or_char_ref(s) == Let(char_ref(s), LAMBDA c : IF c.st = "Ok" THEN c ELSE entity(s))

\* str::split(prefix): the parts between the occurrences of prefix
RECURSIVE Split(_, _)
Split(text, prefix) ==
    LET n == Find(text, <<prefix>>) IN
    IF n < 0 THEN <<text>> ELSE <<Take(text, n)>> \o Split(Drop(text, n + 1), prefix)

\* The loop of expand_entities_with over the parts that follow a prefix.
\* f is the lookup, a function from the defined names to their text, and
\* calls lists the names f was called with so far.  The result is
\* [ok |-> TRUE, out |-> text, calls |-> names] or
\* [ok |-> FALSE, name |-> n, calls |-> names].

\* a loop that leaves a reference to an undefined entity as it is and goes on
RECURSIVE ExpandParts_skip_undefined(_, _, _, _, _, _)
ExpandParts_skip_undefined(parts, prefix, char_refs, f, out, calls) ==
    IF parts = <<>> THEN [ok |-> TRUE, out |-> out, calls |-> calls]
    ELSE Let(IF char_refs THEN entity_or_char_ref(Head(parts)) ELSE entity(Head(parts)),
             LAMBDA m :
         IF m.st # "Ok"
         THEN ExpandParts_skip_undefined(Tail(parts), prefix, char_refs, f,
                                         out \o <<prefix>> \o Head(parts), calls)
         ELSE Let(IF StartsWith(m.rest, <<";">>) THEN Tail(m.rest) ELSE m.rest,
                  LAMBDA rest :
              IF "char" \in DOMAIN m.out
              THEN ExpandParts_skip_undefined(Tail(parts), prefix, char_refs, f,
                                              out \o <<m.out.char>> \o rest, calls)
              ELSE IF m.out.entity \notin DOMAIN f
              THEN ExpandParts_skip_undefined(Tail(parts), prefix, char_refs, f,
                                              out \o <<prefix>> \o Head(parts),
                                              Append(calls, m.out.entity))
              ELSE ExpandParts_skip_undefined(Tail(parts), prefix, char_refs, f,
                                              out \o f[m.out.entity] \o rest,
                                              Append(calls, m.out.entity))))

RECURSIVE ExpandParts(_, _, _, _, _, _)
ExpandParts(parts, prefix, char_refs, f, out, calls) ==
    IF parts = <<>> THEN [ok |-> TRUE, out |-> out, calls |-> calls]
    ELSE Let(IF char_refs THEN entity_or_char_ref(Head(parts)) ELSE entity(Head(parts)),
             LAMBDA m :
         IF m.st # "Ok"
         THEN ExpandParts(Tail(parts), prefix, char_refs, f,
                          out \o <<prefix>> \o Head(parts), calls)
         ELSE Let(IF StartsWith(m.rest, <<";">>) THEN Tail(m.rest) ELSE m.rest,
                  LAMBDA rest :
              IF "char" \in DOMAIN m.out
              THEN ExpandParts(Tail(parts), prefix, char_refs, f,
                               out \o <<m.out.char>> \o rest, calls)
              ELSE IF m.out.entity \notin DOMAIN f
              THEN [ok |-> FALSE, name |-> m.out.entity,
                    calls |-> Append(calls, m.out.entity)]
              ELSE ExpandParts(Tail(parts), prefix, char_refs, f,
                               out \o f[m.out.entity] \o rest,
                               Append(calls, m.out.entity))))

expand_entities_with(text, prefix, char_refs, f) ==
    Let(Split(text, prefix), LAMBDA parts :
        IF Len(parts[1]) = Len(text) THEN [ok |-> TRUE, out |-> text, calls |-> <<>>]
        ELSE ExpandParts(Tail(parts), prefix, char_refs, f, parts[1], <<>>))

expand_entities(text, f) == expand_entities_with(text, "&", TRUE, f)
expand_parameter_entities(text, f) == expand_entities_with(text, "%", FALSE, f)

-----------------------------------------------------------------------------
(* marked_sections.rs *)

MarkedSectionStatus == <<"Include", "RcData", "CData", "Ignore">>
StatusRank(status) == CHOOSE i \in 1..4 : MarkedSectionStatus[i] = status
\* a maximum that keeps the later of the two statuses
StatusMax_later(a, b) == b

StatusMax(a, b) == IF StatusRank(a) >= StatusRank(b) THEN a ELSE b

KEYWORDS == <<
    <<<<"C","D","A","T","A">>, "CData">>,
    <<<<"R","C","D","A","T","A">>, "RcData">>,
    <<<<"I","G","N","O","R","E">>, "Ignore">>,
    <<<<"I","N","C","L","U","D","E">>, "Include">>,
    <<<<"T","E","M","P">>, "Include">> >>

to_ascii_uppercase(c) ==
    IF c \in Lowercase THEN UpperSeq[CHOOSE i \in 1..26 : LowerSeq[i] = c] ELSE c
to_ascii_lowercase(c) ==
    IF c \in Uppercase THEN LowerSeq[CHOOSE i \in 1..26 : UpperSeq[i] = c] ELSE c
eq_ignore_ascii_case(a, b) ==
    Len(a) = Len(b) /\ \A i \in DOMAIN a : to_ascii_uppercase(a[i]) = to_ascii_uppercase(b[i])

\* FromStr for MarkedSectionStatus: <<status>>, or <<>> for the error
status_from_str(s) ==
    LET hits == {i \in DOMAIN KEYWORDS : eq_ignore_ascii_case(KEYWORDS[i][1], s)} IN
    IF hits = {} THEN <<>>
    ELSE <<KEYWORDS[CHOOSE i \in hits : \A j \in hits : i <= j][2]>>

\* str::split_ascii_whitespace (space, tab, LF, FF, CR; no FF is modelled)
RECURSIVE split_ascii_whitespace(_)
split_ascii_whitespace(s) ==
    LET t == spaces(s)
        n == PrefixLen(t, Whitespace, FALSE)
    IN  IF t = <<>> THEN <<>> ELSE <<Take(t, n)>> \o split_ascii_whitespace(Drop(t, n))

\* try_fold over the keywords: [ok |-> TRUE, status |-> s] or
\* [ok |-> FALSE, keyword |-> the keyword returned as the error]
RECURSIVE FoldKeywords(_, _)
FoldKeywords(kws, acc) ==
    IF kws = <<>> THEN [ok |-> TRUE, status |-> acc]
    ELSE Let(status_from_str(Head(kws)), LAMBDA b :
         IF b = <<>> THEN [ok |-> FALSE, keyword |-> Head(kws)]
         ELSE FoldKeywords(Tail(kws), StatusMax(acc, b[1])))

from_keywords(status_keywords) ==
    FoldKeywords(split_ascii_whitespace(status_keywords), "Include")

-----------------------------------------------------------------------------
(* parser/mod.rs *)

\* char::is_uppercase, char::is_lowercase
is_uppercase(c) == c \in Uppercase \cup {"U+00DC"}
is_lowercase(c) == c \in Lowercase \cup {"U+00FC", "U+00DF"}

\* char::to_lowercase, char::to_uppercase: the characters c is mapped to
\* (the uppercase of sharp s is the two letters SS)
char_to_lowercase(c) ==
    IF c = "U+00DC" THEN <<"U+00FC">> ELSE <<to_ascii_lowercase(c)>>
char_to_uppercase(c) ==
    IF c = "U+00FC" THEN <<"U+00DC">>
    ELSE IF c = "U+00DF" THEN <<"S", "S">>
    ELSE <<to_ascii_uppercase(c)>>

\* str::to_lowercase, str::to_uppercase
to_lowercase(n) == Flatten([i \in DOMAIN n |-> char_to_lowercase(n[i])])
to_uppercase(n) == Flatten([i \in DOMAIN n |-> char_to_uppercase(n[i])])

\* NameNormalization::normalize
normalize(name_normalization, n) ==
    IF name_normalization = "ToLowercase" /\ \E i \in DOMAIN n : is_uppercase(n[i])
    THEN to_lowercase(n)
    ELSE IF name_normalization = "ToUppercase" /\ \E i \in DOMAIN n : is_lowercase(n[i])
    THEN to_uppercase(n)
    ELSE n

\* MarkedSectionHandling::parse_keywords
\* a parse_keywords that applies from_keywords in every mode
parse_keywords_any_mode(handling, status_keywords) == from_keywords(status_keywords)

parse_keywords(handling, status_keywords) ==
    IF handling = "AcceptOnlyCharacterData"
    THEN Let(status_from_str(status_keywords), LAMBDA st :
         IF st # <<>> /\ st[1] \in {"CData", "RcData"}
         THEN [ok |-> TRUE, status |-> st[1]]
         ELSE [ok |-> FALSE, keyword |-> status_keywords])
    ELSE from_keywords(status_keywords)

\* ParserConfig::trim
trim(cfg, t) == IF cfg.trim_whitespace THEN trim_matches(t) ELSE t

\* an expansion error as the nom Failure built by into_nom_failure
EntityFailure(at, e) ==
    [st |-> "Failure", rest |-> at, out |-> <<>>,
     err |-> [kind |-> "UndefinedEntity", arg |-> e.name]]

\* a parse_rcdata that returns the text without expanding its entities
parse_rcdata_verbatim(cfg, rcdata, rest) == Ok(rest, rcdata)

\* ParserConfig::parse_rcdata; entity_fn = None is the empty lookup
parse_rcdata(cfg, rcdata, rest) ==
    Let(expand_entities(rcdata, cfg.entity_fn), LAMBDA e :
        IF e.ok THEN Ok(rest, e.out) ELSE EntityFailure(rcdata, e))

\* ParserConfig::parse_markup_declaration_text
parse_markup_declaration_text(cfg, t, rest) ==
    Let(expand_parameter_entities(t, cfg.parameter_entity_fn), LAMBDA e :
        IF e.ok THEN Ok(rest, e.out) ELSE EntityFailure(t, e))

NoEntities == [n \in {} |-> <<>>]

\* ParserConfig::default
DefaultConfig ==
    [trim_whitespace |-> TRUE,
     name_normalization |-> "Unchanged",
     marked_section_handling |-> "AcceptOnlyCharacterData",
     ignore_markup_declarations |-> FALSE,
     ignore_processing_instructions |-> FALSE,
     entity_fn |-> NoEntities,
     parameter_entity_fn |-> NoEntities]

-----------------------------------------------------------------------------
(* lib.rs: SgmlEvent *)

MarkupDeclaration(keyword, body) ==
    [type |-> "MarkupDeclaration", keyword |-> keyword, body |-> body]
ProcessingInstruction(t) == [type |-> "ProcessingInstruction", text |-> t]
MarkedSection(status_keywords, section) ==
    [type |-> "MarkedSection", status_keywords |-> status_keywords, section |-> section]
OpenStartTag(n) == [type |-> "OpenStartTag", name |-> n]
\* value is <<>> for None and <<v>> for Some(v)
Attribute(n, value) == [type |-> "Attribute", name |-> n, value |-> value]
CloseStartTag == [type |-> "CloseStartTag"]
XmlCloseEmptyElement == [type |-> "XmlCloseEmptyElement"]
EndTag(n) == [type |-> "EndTag", name |-> n]
Character(t) == [type |-> "Character", text |-> t]

-----------------------------------------------------------------------------
(* parser/events.rs *)

\* EventIter: start and end are <<>> (None) or <<event>>
EventIter_empty == [start |-> <<>>, middle |-> <<>>, end |-> <<>>, middle_next |-> 0]
EventIter_once(event) == [EventIter_empty EXCEPT !.start = <<event>>]
EventIter_cond(condition, event) ==
    IF condition THEN EventIter_once(event) ELSE EventIter_empty
EventIter_start_tag(start, middle, end) ==
    [start |-> <<start>>, middle |-> middle, end |-> <<end>>, middle_next |-> 0]
EventIter_from_iter(events) == [EventIter_empty EXCEPT !.middle = events]

\* a next that yields the end event before the middle events
EventIter_next_end_first(it) ==
    IF it.start # <<>> THEN <<it.start, [it EXCEPT !.start = <<>>]>>
    ELSE IF it.end # <<>> THEN <<it.end, [it EXCEPT !.end = <<>>]>>
    ELSE IF it.middle_next < Len(it.middle)
    THEN <<<<it.middle[it.middle_next + 1]>>, [it EXCEPT !.middle_next = @ + 1]>>
    ELSE <<<<>>, it>>

\* Iterator::next: <<the item, <<>> for None; the iterator afterwards>>
EventIter_next(it) ==
    IF it.start # <<>> THEN <<it.start, [it EXCEPT !.start = <<>>]>>
    ELSE IF it.middle_next < Len(it.middle)
    THEN <<<<it.middle[it.middle_next + 1]>>,
           [it EXCEPT !.middle_next = @ + 1,
                      !.middle[it.middle_next + 1] = XmlCloseEmptyElement]>>
    ELSE IF it.end # <<>> THEN <<it.end, [it EXCEPT !.end = <<>>]>>
    ELSE <<<<>>, it>>

\* the events an EventIter yields until next returns None
RECURSIVE collect(_)
collect(it) ==
    Let(EventIter_next(it), LAMBDA n :
        IF n[1] = <<>> THEN <<>> ELSE n[1] \o collect(n[2]))

\* flatten: the events of a sequence of EventIters, in order
RECURSIVE flatten(_)
flatten(its) == IF its = <<>> THEN <<>> ELSE collect(Head(its)) \o flatten(Tail(its))

\* f, then the comments and spaces that follow it
strip_comments_and_spaces_after(r) ==
    AndThen(r, LAMBDA item :
        MapOk(comments_and_spaces(item.rest), LAMBDA skipped : item.out))

markup_declaration_event(s, cfg) ==
    MapOk(markup_declaration(s), LAMBDA decl :
        EventIter_cond(~cfg.ignore_markup_declarations,
                       MarkupDeclaration(decl[1], decl[2])))

processing_instruction(s, cfg) ==
    MapOk(raw_processing_instruction(s), LAMBDA decl :
        EventIter_cond(~cfg.ignore_processing_instructions,
                       ProcessingInstruction(decl)))

open_start_tag(s, cfg) ==
    MapOk(raw_open_start_tag(s), LAMBDA n :
        OpenStartTag(normalize(cfg.name_normalization, n)))

\* alt((xml_close_empty_element, close_start_tag))
close_or_xml_close(s) ==
    OrElse(MapOk(raw_xml_close_empty_element(s), LAMBDA o : XmlCloseEmptyElement),
           MapOk(raw_close_start_tag(s), LAMBDA o : CloseStartTag))

empty_start_tag(s) ==
    MapOk(raw_empty_start_tag(s), LAMBDA o :
        EventIter_start_tag(OpenStartTag(<<>>), <<>>, CloseStartTag))

\* an attribute that expands the references of an unquoted value too
attribute_expand_unquoted(s, cfg) ==
    AndThen(name(s), LAMBDA n :
    Let(normalize(cfg.name_normalization, n.out), LAMBDA nm :
    Let(spaces(n.rest), LAMBDA eq :
        IF ~StartsWith(eq, <<"=">>) THEN Ok(eq, Attribute(nm, <<>>))
        ELSE AndThen(cut(attribute_value(spaces(Tail(eq)))), LAMBDA v :
             AndThen(parse_rcdata(cfg, v.out[1], v.rest), LAMBDA value :
                 Ok(spaces(value.rest), Attribute(nm, <<value.out>>)))))))

\* attribute, with raw::attribute_parse_value inlined; the spaces after it
\* are skipped (strip_spaces_after)
attribute(s, cfg) ==
    AndThen(name(s), LAMBDA n :
    Let(normalize(cfg.name_normalization, n.out), LAMBDA nm :
    Let(spaces(n.rest), LAMBDA eq :
        IF ~StartsWith(eq, <<"=">>) THEN Ok(eq, Attribute(nm, <<>>))
        ELSE AndThen(cut(attribute_value(spaces(Tail(eq)))), LAMBDA v :
             AndThen(IF v.out[2] THEN parse_rcdata(cfg, v.out[1], v.rest)
                     ELSE Ok(v.rest, v.out[1]),
                     LAMBDA value :
                         Ok(spaces(value.rest), Attribute(nm, <<value.out>>)))))))

start_tag(s, cfg) ==
    OrElse(AndThen(open_start_tag(s, cfg), LAMBDA open :
           AndThen(many0(LAMBDA t : attribute(t, cfg), spaces(open.rest)), LAMBDA attrs :
           MapOk(cut(close_or_xml_close(attrs.rest)), LAMBDA close :
               EventIter_start_tag(open.out, attrs.out, close)))),
           empty_start_tag(s))

end_tag(s, cfg) ==
    MapOk(raw_end_tag(s), LAMBDA n : EndTag(normalize(cfg.name_normalization, n)))

text(s, cfg, mse) ==
    AndThen(raw_text(s, mse), LAMBDA r :
    Let(trim(cfg, r.out), LAMBDA t :
        IF t = <<>> THEN Ok(r.rest, EventIter_empty)
        ELSE MapOk(parse_rcdata(cfg, t, r.rest), LAMBDA d : EventIter_once(Character(d)))))

RECURSIVE content(_, _, _)

\* marked_section_body: the body and the end of a marked section
marked_section_body(s, status_keywords, status, cfg) ==
    IF cfg.marked_section_handling = "KeepUnmodified"
    THEN MapOk(IF status = "Ignore" THEN marked_section_body_ignore(s)
               ELSE IF status \in {"CData", "RcData"}
               THEN marked_section_body_character_data(s)
               ELSE AndThen(recognize(s, content(s, cfg, "StopParsing")), LAMBDA inner :
                        MapOk(marked_section_end(inner.rest), LAMBDA o : inner.out)),
               LAMBDA body : EventIter_once(MarkedSection(status_keywords, body)))
    ELSE IF status = "Ignore"
    THEN MapOk(marked_section_body_ignore(s), LAMBDA o : EventIter_empty)
    ELSE IF status = "CData"
    THEN MapOk(marked_section_body_character_data(s), LAMBDA cdata :
             EventIter_once(Character(trim(cfg, cdata))))
    ELSE IF status = "RcData"
    THEN AndThen(marked_section_body_character_data(s), LAMBDA cdata :
             MapOk(parse_rcdata(cfg, trim(cfg, cdata.out), cdata.rest), LAMBDA d :
                 EventIter_once(Character(d))))
    ELSE AndThen(content(s, cfg, "StopParsing"), LAMBDA inner :
             MapOk(marked_section_body_character_data(inner.rest), LAMBDA o :
                 EventIter_from_iter(inner.out)))

\* the offset in s of the slice the keyword error points at: the first
\* occurrence of the keyword in the raw keywords, else the raw keywords
KeywordErrorOffset(s, raw_status_keywords, keyword) ==
    LET lead == 3 + PrefixLen(Drop(s, 3), Whitespace, TRUE)
        pos == Find(raw_status_keywords, keyword)
    IN  IF pos < 0 THEN lead ELSE lead + pos

marked_section_declaration(s, cfg) ==
    AndThen(marked_section_start_and_keywords(s), LAMBDA raw :
    AndThen(parse_markup_declaration_text(cfg, raw.out, raw.rest), LAMBDA kw :
    Let(parse_keywords(cfg.marked_section_handling, kw.out), LAMBDA status :
        IF ~status.ok
        THEN [st |-> "Failure",
              rest |-> Drop(s, KeywordErrorOffset(s, raw.out, status.keyword)),
              out |-> <<>>,
              err |-> [kind |-> "InvalidMarkedSectionKeyword", arg |-> kw.out]]
        ELSE marked_section_body(raw.rest, kw.out, status.status, cfg))))

content_item(s, cfg, mse) ==
    OrElse(text(s, cfg, mse),
    OrElse(start_tag(s, cfg),
    OrElse(MapOk(end_tag(s, cfg), LAMBDA e : EventIter_once(e)),
    OrElse(processing_instruction(s, cfg),
    OrElse(marked_section_declaration(s, cfg),
           Error(s))))))

\* terminated(content_item, many0_count(comment_declaration))
content_item_and_comments(s, cfg, mse) ==
    AndThen(content_item(s, cfg, mse), LAMBDA item :
        MapOk(many0(comment_declaration, item.rest), LAMBDA skipped : item.out))

\* out: the events of the content items, flattened
content(s, cfg, mse) ==
    MapOk(many1(LAMBDA t : content_item_and_comments(t, cfg, mse), s), flatten)

prolog_item(s, cfg) ==
    strip_comments_and_spaces_after(
        OrElse(markup_declaration_event(s, cfg),
        OrElse(marked_section_declaration(s, cfg),
               processing_instruction(s, cfg))))

prolog(s, cfg) ==
    MapOk(many0(LAMBDA t : prolog_item(t, cfg), s), flatten)

\* out: the events of the document; all_consuming
document_entity(s, cfg) ==
    AndThen(comments_and_spaces(s), LAMBDA lead :
    AndThen(prolog(lead.rest, cfg), LAMBDA decls :
    AndThen(cut(content(decls.rest, cfg, "TreatAsText")), LAMBDA body :
    AndThen(many0(LAMBDA t :
                      strip_comments_and_spaces_after(processing_instruction(t, cfg)),
                  body.rest),
            LAMBDA epilogue :
                IF epilogue.rest # <<>> THEN Error(epilogue.rest)
                ELSE Ok(<<>>, decls.out \o body.out \o flatten(epilogue.out))))))

\* Parser::parse: [ok |-> TRUE, events |-> the fragment], or
\* [ok |-> FALSE, err |-> the error, at |-> the offset it points at]
parse_with(s, cfg) ==
    Let(document_entity(s, cfg), LAMBDA r :
        IF r.st = "Ok" THEN [ok |-> TRUE, events |-> r.out]
        ELSE [ok |-> FALSE, err |-> r.err, at |-> Len(s) - Len(r.rest)])

parse(s) == parse_with(s, DefaultConfig)

-----------------------------------------------------------------------------
(* text.rs, lib.rs, fragment.rs: Display *)

\* text::escape
RECURSIVE escape(_)
escape(t) ==
    IF t = <<>> THEN <<>>
    ELSE (IF t[1] = "<" THEN <<"&", "#", "6", "0", ";">>
          ELSE IF t[1] = ">" THEN <<"&", "#", "6", "2", ";">>
          ELSE IF t[1] = "&" THEN <<"&", "#", "3", "8", ";">>
          ELSE <<t[1]>>) \o escape(Tail(t))

\* the character-by-character escape of an attribute value
RECURSIVE escape_attribute(_)
escape_attribute(v) ==
    IF v = <<>> THEN <<>>
    ELSE (IF v[1] = "\"" THEN <<"&", "#", "3", "4", ";">>
          ELSE IF v[1] = "&" THEN <<"&", "#", "3", "8", ";">>
          ELSE <<v[1]>>) \o escape_attribute(Tail(v))

\* a Display that chooses the quotes of an attribute value by the quotes the
\* value holds alone, whether it holds an ampersand or not
display_event_by_quotes_alone(e) ==
    IF e.type = "MarkupDeclaration"
    THEN <<"<", "!">> \o e.keyword
         \o (IF e.body # <<>> THEN <<" ">> \o e.body ELSE <<>>) \o <<">">>
    ELSE IF e.type = "ProcessingInstruction" THEN e.text
    ELSE IF e.type = "MarkedSection"
    THEN <<"<", "!", "[">> \o e.status_keywords \o <<"[">> \o e.section \o <<"]", "]", ">">>
    ELSE IF e.type = "OpenStartTag" THEN <<"<">> \o e.name
    ELSE IF e.type = "Attribute"
    THEN IF e.value = <<>> THEN e.name
         ELSE LET value == e.value[1]
                  escape_ampersand == FALSE
              IN  IF ~escape_ampersand /\ ~\E i \in DOMAIN value : value[i] = "\""
                  THEN e.name \o <<"=", "\"">> \o value \o <<"\"">>
                  ELSE IF ~escape_ampersand /\ ~\E i \in DOMAIN value : value[i] = "'"
                  THEN e.name \o <<"=", "'">> \o value \o <<"'">>
                  ELSE e.name \o <<"=", "\"">> \o escape_attribute(value) \o <<"\"">>
    ELSE IF e.type = "CloseStartTag" THEN <<">">>
    ELSE IF e.type = "XmlCloseEmptyElement" THEN <<"/", ">">>
    ELSE IF e.type = "EndTag" THEN <<"<", "/">> \o e.name \o <<">">>
    ELSE escape(e.text)

\* impl Display for SgmlEvent
display_event(e) ==
    IF e.type = "MarkupDeclaration"
    THEN <<"<", "!">> \o e.keyword
         \o (IF e.body # <<>> THEN <<" ">> \o e.body ELSE <<>>) \o <<">">>
    ELSE IF e.type = "ProcessingInstruction" THEN e.text
    ELSE IF e.type = "MarkedSection"
    THEN <<"<", "!", "[">> \o e.status_keywords \o <<"[">> \o e.section \o <<"]", "]", ">">>
    ELSE IF e.type = "OpenStartTag" THEN <<"<">> \o e.name
    ELSE IF e.type = "Attribute"
    THEN IF e.value = <<>> THEN e.name
         ELSE LET value == e.value[1]
                  escape_ampersand == \E i \in DOMAIN value : value[i] = "&"
              IN  IF ~escape_ampersand /\ ~\E i \in DOMAIN value : value[i] = "\""
                  THEN e.name \o <<"=", "\"">> \o value \o <<"\"">>
                  ELSE IF ~escape_ampersand /\ ~\E i \in DOMAIN value : value[i] = "'"
                  THEN e.name \o <<"=", "'">> \o value \o <<"'">>
                  ELSE e.name \o <<"=", "\"">> \o escape_attribute(value) \o <<"\"">>
    ELSE IF e.type = "CloseStartTag" THEN <<">">>
    ELSE IF e.type = "XmlCloseEmptyElement" THEN <<"/", ">">>
    ELSE IF e.type = "EndTag" THEN <<"<", "/">> \o e.name \o <<">">>
    ELSE escape(e.text)

\* impl Display for SgmlFragment
RECURSIVE display_fragment(_)
display_fragment(events) ==
    IF events = <<>> THEN <<>>
    ELSE (IF Head(events).type = "Attribute" THEN <<" ">> ELSE <<>>)
         \o display_event(Head(events)) \o display_fragment(Tail(events))

-----------------------------------------------------------------------------
(* transforms/transform.rs *)

\* a sort by index that puts an entry before the entries of the same index
\* that were recorded before it
RECURSIVE InsertBeforeEqual(_, _)
InsertBeforeEqual(sorted, x) ==
    IF sorted = <<>> THEN <<x>>
    ELSE IF Head(sorted).index < x.index
    THEN <<Head(sorted)>> \o InsertBeforeEqual(Tail(sorted), x)
    ELSE <<x>> \o sorted
RECURSIVE sort_by_key_ties_reversed(_)
sort_by_key_ties_reversed(ins) ==
    IF ins = <<>> THEN <<>>
    ELSE InsertBeforeEqual(sort_by_key_ties_reversed(Take(ins, Len(ins) - 1)), ins[Len(ins)])

\* sort_by_key(|(pos, _)| *pos), a stable sort: insertion into a sorted list
\* after the entries whose index is not larger
RECURSIVE InsertSorted(_, _)
InsertSorted(sorted, x) ==
    IF sorted = <<>> THEN <<x>>
    ELSE IF Head(sorted).index <= x.index THEN <<Head(sorted)>> \o InsertSorted(Tail(sorted), x)
    ELSE <<x>> \o sorted
RECURSIVE sort_by_key(_)
sort_by_key(ins) ==
    IF ins = <<>> THEN <<>>
    ELSE InsertSorted(sort_by_key(Take(ins, Len(ins) - 1)), ins[Len(ins)])

\* deletions.sort_unstable(): the indices in ascending order
RECURSIVE InsertIndex(_, _)
InsertIndex(sorted, x) ==
    IF sorted = <<>> THEN <<x>>
    ELSE IF Head(sorted) <= x THEN <<Head(sorted)>> \o InsertIndex(Tail(sorted), x)
    ELSE <<x>> \o sorted
RECURSIVE sort_unstable(_)
sort_unstable(dels) ==
    IF dels = <<>> THEN <<>>
    ELSE InsertIndex(sort_unstable(Take(dels, Len(dels) - 1)), dels[Len(dels)])

\* deletions.dedup(): one of every run of equal indices
RECURSIVE dedup(_)
dedup(dels) ==
    IF Len(dels) < 2 THEN dels
    ELSE IF dels[1] = dels[2] THEN dedup(Tail(dels))
    ELSE <<dels[1]>> \o dedup(Tail(dels))

\* the loop of Transform::apply over the events from index i on, and the
\* insertions left after it; ins is the sorted list of the insertions not
\* yet made, dels the sorted list of the deletions not yet made
RECURSIVE ApplyFrom(_, _, _, _)
ApplyFrom(events, i, ins, dels) ==
    IF i >= Len(events) THEN [k \in DOMAIN ins |-> ins[k].event]
    ELSE LET n == Cardinality({k \in DOMAIN ins :
                      \A j \in 1..k : ins[j].index = i})
             deleted == dels # <<>> /\ Head(dels) = i
         IN  [k \in 1..n |-> ins[k].event]
             \o (IF deleted THEN <<>> ELSE <<events[i + 1]>>)
             \o ApplyFrom(events, i + 1, Drop(ins, n), IF deleted THEN Tail(dels) ELSE dels)

\* Transform::apply; insertions are [index, event] and deletions are
\* indices, in the order recorded
apply(ins, dels, events) ==
    IF ins = <<>> /\ dels = <<>> THEN events
    ELSE ApplyFrom(events, 0, sort_by_key(ins), dedup(sort_unstable(dels)))

-----------------------------------------------------------------------------
(* Documents: parse, display, parse again *)

MaxTokens == 3

\* the pieces of markup the source texts are assembled from
DocTokens ==
    { <<"<", "a">>, <<">">>, <<"/", ">">>, <<"<", "/", "a", ">">>,
      <<" ">>, <<"x">>, <<" ", "b", "=", "'", "v", "'">>, <<" ", "c">>,
      <<"<", "!", "-", "-", "-", "-", ">">>,
      <<"<", "!", "[", "C", "D", "A", "T", "A", "[">>, <<"]", "]", ">">>,
      <<"<", "?", "p", ">">>, <<"<", "!", "D", " ", "e", ">">>,
      <<"&", "#", "6", "0", ";">>, <<"<", ">">> }

TokenStrings(tokens, n) ==
    { Flatten(ts) : ts \in UNION { [1..k -> tokens] : k \in 0..n } }

DocInputs == TokenStrings(DocTokens, MaxTokens)

DocConfigs ==
    { DefaultConfig,
      [DefaultConfig EXCEPT !.marked_section_handling = "KeepUnmodified",
                            !.trim_whitespace = FALSE],
      [DefaultConfig EXCEPT !.marked_section_handling = "ExpandAll",
                            !.name_normalization = "ToUppercase",
                            !.ignore_markup_declarations = TRUE,
                            !.ignore_processing_instructions = TRUE] }

\* the value of a variable the driver has not set yet
Unset == <<>>

NormIdle ==
    /\ fragment = Unset
    /\ idx = 0
    /\ stack = <<>>
    /\ next_insertion_point = 0
    /\ end_xml_empty_element = <<>>
    /\ insertions = <<>>
    /\ deletions = <<>>
    /\ outcome = Unset

NormVars == <<fragment, idx, stack, next_insertion_point, end_xml_empty_element,
              insertions, deletions, outcome>>

\* the deserializer is not in use
DeIdle ==
    /\ de = Unset
    /\ ret = Unset
    /\ access = Unset
    /\ visited = <<>>

DeVars == <<de, ret, access, visited>>

Init ==
    /\ pc = "start"
    /\ input \in DocInputs
    /\ keywords = Unset
    /\ config \in DocConfigs
    /\ parsed = Unset
    /\ shown = Unset
    /\ reparsed = Unset
    /\ NormIdle
    /\ DeIdle

\* Parser::parse
Parse ==
    /\ pc = "start"
    /\ parsed' = parse_with(input, config)
    /\ pc' = "parsed"
    /\ UNCHANGED <<input, keywords, config, shown, reparsed, NormVars, DeVars>>

\* fragment.to_string()
Display ==
    /\ pc = "parsed"
    /\ parsed.ok
    /\ shown' = display_fragment(parsed.events)
    /\ pc' = "shown"
    /\ UNCHANGED <<input, keywords, config, parsed, reparsed, NormVars, DeVars>>

\* parsing the displayed text with the same parser
Reparse ==
    /\ pc = "shown"
    /\ reparsed' = parse_with(shown, config)
    /\ pc' = "reparsed"
    /\ UNCHANGED <<input, keywords, config, parsed, shown, NormVars, DeVars>>

Next == Parse \/ Display \/ Reparse

Spec == Init /\ [][Next]_vars

-----------------------------------------------------------------------------
(* transforms/normalize_end_tags.rs: one step per iteration of the loop *)

MaxItems == 4

\* the event runs the fragments are assembled from
NormItems ==
    { <<OpenStartTag(<<"a">>), CloseStartTag>>,
      <<OpenStartTag(<<"b">>), Attribute(<<"c">>, <<>>), CloseStartTag>>,
      <<OpenStartTag(<<"a">>), XmlCloseEmptyElement>>,
      <<OpenStartTag(<<"b">>), Attribute(<<"c">>, <<>>), XmlCloseEmptyElement>>,
      <<OpenStartTag(<<>>), CloseStartTag>>,
      <<EndTag(<<"a">>)>>, <<EndTag(<<"b">>)>>, <<EndTag(<<>>)>>,
      <<Character(<<"x">>)>>, <<Character(<<" ">>)>>,
      <<ProcessingInstruction(<<"<", "?", "p", ">">>)>> }

NormInputs == TokenStrings(NormItems, MaxItems)

InitNorm ==
    /\ pc = "loop"
    /\ input \in NormInputs
    /\ keywords = Unset
    /\ config = DefaultConfig
    /\ parsed = Unset
    /\ shown = Unset
    /\ reparsed = Unset
    /\ fragment = input
    /\ idx = Len(input)
    /\ stack = <<>>
    /\ next_insertion_point = Len(input)
    /\ end_xml_empty_element = <<>>
    /\ insertions = <<>>
    /\ deletions = <<>>
    /\ outcome = Unset
    /\ DeIdle

\* the event visited by the iteration, at index i = idx - 1
Visiting(types) == pc = "loop" /\ idx > 0 /\ fragment[idx].type \in types

DocVars == <<input, keywords, config, parsed, shown, reparsed, de, ret, access, visited>>

\* the visit of an empty tag that passes over it as over any other event
EmptyTagNotSupported_passed_over ==
    /\ Visiting({"OpenStartTag", "EndTag"})
    /\ fragment[idx].name = <<>>
    /\ idx' = idx - 1
    /\ UNCHANGED <<DocVars, deletions, pc, fragment, stack, next_insertion_point,
                   end_xml_empty_element, insertions, outcome>>

EmptyTagNotSupported ==
    /\ Visiting({"OpenStartTag", "EndTag"})
    /\ fragment[idx].name = <<>>
    /\ outcome' = [ok |-> FALSE, err |-> "EmptyTagNotSupported"]
    /\ pc' = "done"
    /\ UNCHANGED <<DocVars, deletions, fragment, idx, stack, next_insertion_point,
                   end_xml_empty_element, insertions>>

\* the visit of a start tag that pairs it with the end tag on top of the
\* stack before it looks at end_xml_empty_element
VisitOpenStartTag_stack_first ==
    /\ Visiting({"OpenStartTag"})
    /\ fragment[idx].name # <<>>
    /\ LET tag_name == fragment[idx].name
           paired == stack # <<>> /\ stack[Len(stack)] = tag_name
           insertion_point ==
               IF paired THEN <<>>
               ELSE IF end_xml_empty_element # <<>> THEN end_xml_empty_element
               ELSE <<next_insertion_point>>
       IN  /\ end_xml_empty_element' = <<>>
           /\ stack' = IF paired THEN Take(stack, Len(stack) - 1) ELSE stack
           /\ insertions' =
                  IF insertion_point # <<>>
                  THEN Append(insertions,
                              [index |-> insertion_point[1], event |-> EndTag(tag_name)])
                  ELSE insertions
    /\ next_insertion_point' = idx - 1
    /\ idx' = idx - 1
    /\ UNCHANGED <<DocVars, deletions, pc, fragment, outcome>>

VisitOpenStartTag ==
    /\ Visiting({"OpenStartTag"})
    /\ fragment[idx].name # <<>>
    /\ LET tag_name == fragment[idx].name
           paired == /\ end_xml_empty_element = <<>>
                     /\ stack # <<>>
                     /\ stack[Len(stack)] = tag_name
           insertion_point ==
               IF end_xml_empty_element # <<>> THEN end_xml_empty_element
               ELSE IF paired THEN <<>>
               ELSE <<next_insertion_point>>
       IN  /\ end_xml_empty_element' = <<>>
           /\ stack' = IF paired THEN Take(stack, Len(stack) - 1) ELSE stack
           /\ insertions' =
                  IF insertion_point # <<>>
                  THEN Append(insertions,
                              [index |-> insertion_point[1], event |-> EndTag(tag_name)])
                  ELSE insertions
    /\ next_insertion_point' = idx - 1
    /\ idx' = idx - 1
    /\ UNCHANGED <<DocVars, deletions, pc, fragment, outcome>>

\* the visit of /> that leaves the event as it is
VisitXmlCloseEmptyElement_kept ==
    /\ Visiting({"XmlCloseEmptyElement"})
    /\ end_xml_empty_element' = <<idx>>
    /\ idx' = idx - 1
    /\ UNCHANGED <<DocVars, deletions, pc, fragment, stack, next_insertion_point,
                   insertions, outcome>>

VisitXmlCloseEmptyElement ==
    /\ Visiting({"XmlCloseEmptyElement"})
    /\ fragment' = [fragment EXCEPT ![idx] = CloseStartTag]
    /\ end_xml_empty_element' = <<idx>>
    /\ idx' = idx - 1
    /\ UNCHANGED <<DocVars, deletions, pc, stack, next_insertion_point, insertions, outcome>>

\* an end tag visit that leaves the insertion point where it was
VisitEndTag_keep_insertion_point ==
    /\ Visiting({"EndTag"})
    /\ fragment[idx].name # <<>>
    /\ stack' = Append(stack, fragment[idx].name)
    /\ idx' = idx - 1
    /\ UNCHANGED <<DocVars, deletions, pc, fragment, next_insertion_point,
                   end_xml_empty_element, insertions, outcome>>

VisitEndTag ==
    /\ Visiting({"EndTag"})
    /\ fragment[idx].name # <<>>
    /\ stack' = Append(stack, fragment[idx].name)
    /\ next_insertion_point' = idx - 1
    /\ idx' = idx - 1
    /\ UNCHANGED <<DocVars, deletions, pc, fragment, end_xml_empty_element, insertions, outcome>>

\* a character visit that never moves the insertion point
VisitCharacter_no_move ==
    /\ Visiting({"Character"})
    /\ idx' = idx - 1
    /\ UNCHANGED <<DocVars, deletions, pc, fragment, stack, next_insertion_point,
                   end_xml_empty_element, insertions, outcome>>

VisitCharacter ==
    /\ Visiting({"Character"})
    /\ next_insertion_point' =
           IF next_insertion_point = idx /\ is_blank(fragment[idx].text)
           THEN idx - 1 ELSE next_insertion_point
    /\ idx' = idx - 1
    /\ UNCHANGED <<DocVars, deletions, pc, fragment, stack, end_xml_empty_element,
                   insertions, outcome>>

VisitOther ==
    /\ Visiting({"MarkupDeclaration", "ProcessingInstruction", "MarkedSection",
                 "Attribute", "CloseStartTag"})
    /\ idx' = idx - 1
    /\ UNCHANGED <<DocVars, deletions, pc, fragment, stack, next_insertion_point,
                   end_xml_empty_element, insertions, outcome>>

\* the end of the run where the unpaired end tag reported is the one at the
\* bottom of the stack
Finish_reports_bottom ==
    /\ pc = "loop"
    /\ idx = 0
    /\ outcome' = IF stack # <<>>
                  THEN [ok |-> FALSE, err |-> "UnpairedEndTag", name |-> stack[1]]
                  ELSE [ok |-> TRUE, events |-> apply(insertions, <<>>, fragment)]
    /\ pc' = "done"
    /\ UNCHANGED <<DocVars, deletions, fragment, idx, stack, next_insertion_point,
                   end_xml_empty_element, insertions>>

\* after the loop: the unpaired end tag check and transform.apply
Finish ==
    /\ pc = "loop"
    /\ idx = 0
    /\ outcome' = IF stack # <<>>
                  THEN [ok |-> FALSE, err |-> "UnpairedEndTag",
                        name |-> stack[Len(stack)]]
                  ELSE [ok |-> TRUE, events |-> apply(insertions, <<>>, fragment)]
    /\ pc' = "done"
    /\ UNCHANGED <<DocVars, deletions, fragment, idx, stack, next_insertion_point,
                   end_xml_empty_element, insertions>>

NextNorm ==
    \/ EmptyTagNotSupported
    \/ VisitOpenStartTag
    \/ VisitXmlCloseEmptyElement
    \/ VisitEndTag
    \/ VisitCharacter
    \/ VisitOther
    \/ Finish

SpecNorm == InitNorm /\ [][NextNorm]_vars

-----------------------------------------------------------------------------
(* Properties of parsed fragments *)

\* the events from here on form start tag runs; in_tag: a run is open
RECURSIVE StartTagRuns(_, _)
StartTagRuns(events, in_tag) ==
    IF events = <<>> THEN ~in_tag
    ELSE LET t == Head(events).type IN
         IF in_tag
         THEN IF t = "Attribute" THEN StartTagRuns(Tail(events), TRUE)
              ELSE t \in {"CloseStartTag", "XmlCloseEmptyElement"}
                   /\ StartTagRuns(Tail(events), FALSE)
         ELSE IF t = "OpenStartTag" THEN StartTagRuns(Tail(events), TRUE)
              ELSE t \notin {"Attribute", "CloseStartTag", "XmlCloseEmptyElement"}
                   /\ StartTagRuns(Tail(events), FALSE)

\* C1: in every fragment parse returns, under any configuration, each
\* OpenStartTag is followed by zero or more Attribute events and then exactly
\* one CloseStartTag or XmlCloseEmptyElement with nothing else in between, and
\* Attribute, CloseStartTag and XmlCloseEmptyElement occur only in such a run.
C1_StartTagRuns ==
    (pc \in {"parsed", "shown", "reparsed"} /\ parsed.ok)
        => StartTagRuns(parsed.events, FALSE)

\* a fragment with a start tag that has an attribute and is XML-closed, under
\* a configuration other than the default
C1_Witness ==
    /\ pc = "parsed"
    /\ parsed.ok
    /\ config.marked_section_handling = "ExpandAll"
    /\ \E i \in DOMAIN parsed.events :
          /\ i + 2 <= Len(parsed.events)
          /\ parsed.events[i].type = "OpenStartTag"
          /\ parsed.events[i + 1].type = "Attribute"
          /\ parsed.events[i + 2].type = "XmlCloseEmptyElement"

\* scanning with a stack: push on OpenStartTag, pop the same name on EndTag
RECURSIVE Balanced(_, _)
Balanced(events, open) ==
    IF events = <<>> THEN open = <<>>
    ELSE IF Head(events).type = "OpenStartTag"
    THEN Balanced(Tail(events), Append(open, Head(events).name))
    ELSE IF Head(events).type = "EndTag"
    THEN /\ open # <<>>
         /\ open[Len(open)] = Head(events).name
         /\ Balanced(Tail(events), Take(open, Len(open) - 1))
    ELSE Balanced(Tail(events), open)

\* C2: whenever normalize_end_tags returns Ok, on input with well-formed start
\* tags, the result is tag-balanced: scanned left to right with a stack, every
\* EndTag closes the element on top of the stack and the stack ends empty.
C2_NormalizedIsBalanced ==
    (pc = "done" /\ outcome.ok) => Balanced(outcome.events, <<>>)

\* a successful run that both paired an existing end tag and synthesized two
C2_Witness ==
    /\ pc = "done"
    /\ outcome.ok
    /\ Len(insertions) >= 2
    /\ \E i \in DOMAIN input : input[i].type = "EndTag"
    /\ ~Balanced(input, <<>>)

\* the index of the first OpenStartTag or EndTag at index j or later, or the
\* length of the fragment (indices count from 0)
RECURSIVE NextTagEvent(_, _)
NextTagEvent(events, j) ==
    IF j >= Len(events) THEN Len(events)
    ELSE IF events[j + 1].type \in {"OpenStartTag", "EndTag"} THEN j
    ELSE NextTagEvent(events, j + 1)

\* position p moved in front of the blank Character events that end at p
RECURSIVE BeforeBlankRun(_, _)
BeforeBlankRun(events, p) ==
    IF p > 0 /\ events[p].type = "Character" /\ is_blank(events[p].text)
    THEN BeforeBlankRun(events, p - 1)
    ELSE p

\* the visit of an OpenStartTag that has no end tag and is not XML-closed
VisitsUnpairedOpenStartTag ==
    /\ Visiting({"OpenStartTag"})
    /\ idx' = idx - 1
    /\ end_xml_empty_element = <<>>
    /\ ~(stack # <<>> /\ stack[Len(stack)] = fragment[idx].name)

\* C3: for each OpenStartTag that is neither paired with an existing EndTag
\* nor XML-closed, the synthesized EndTag of the same name is recorded for the
\* position of the next OpenStartTag or EndTag after it (the end of the
\* fragment when there is none), moved in front of the run of blank
\* Character events directly before that position; and in the result every
\* synthesized EndTag stands at the position recorded for it.
C3_SynthesizedEndTagPlacement ==
    [][/\ VisitsUnpairedOpenStartTag =>
              insertions' = Append(insertions,
                  [index |-> BeforeBlankRun(input, NextTagEvent(input, idx)),
                   event |-> EndTag(input[idx].name)])
       /\ (pc = "loop" /\ pc' = "done" /\ outcome'.ok) =>
              /\ Len(outcome'.events) = Len(input) + Len(insertions)
              /\ \A k \in DOMAIN insertions :
                    LET at == insertions[k].index + (Len(insertions) - k) + 1 IN
                    /\ outcome'.events[at] = insertions[k].event
                    /\ insertions[k].index < Len(input) =>
                           outcome'.events[at + 1].type = input[insertions[k].index + 1].type
      ]_vars

\* a successful run in which a synthesized end tag sits in front of a blank
\* Character event that precedes a later tag
C3_Witness ==
    /\ pc = "done"
    /\ outcome.ok
    /\ \E k \in DOMAIN insertions :
          LET i == insertions[k].index IN
          /\ i + 2 <= Len(input)
          /\ input[i + 1].type = "Character"
          /\ is_blank(input[i + 1].text)
          /\ input[i + 2].type = "OpenStartTag"
          /\ insertions[k].event.type = "EndTag"

\* a fragment with the text of its Character events trimmed
TrimmedCharacters(events) ==
    [i \in DOMAIN events |->
        IF events[i].type = "Character"
        THEN Character(trim_matches(events[i].text))
        ELSE events[i]]

\* C4: for every fragment parse produces with the default configuration,
\* displaying it and parsing the text again with the default configuration
\* succeeds and yields an equal fragment, up to the trimming of Character
\* events.
C4_DisplayRoundTrip ==
    (pc = "reparsed" /\ config = DefaultConfig) =>
        /\ reparsed.ok
        /\ TrimmedCharacters(reparsed.events) = TrimmedCharacters(parsed.events)

-----------------------------------------------------------------------------
(* Marked sections: one declaration under each handling mode *)

MaxSectionKeywords == 2
MaxBodyTokens == 3

\* words joined by single spaces
RECURSIVE Join(_)
Join(words) ==
    IF words = <<>> THEN <<>>
    ELSE IF Len(words) = 1 THEN words[1]
    ELSE words[1] \o <<" ">> \o Join(Tail(words))

\* the keyword strings of up to n of the words, with or without a space in
\* front and behind
KeywordStrings(words, n) ==
    { lead \o Join(ws) \o trail :
        ws \in UNION { [1..k -> words] : k \in 0..n },
        lead \in {<<>>, <<" ">>}, trail \in {<<>>, <<" ">>} }

SectionWords ==
    { <<"C", "D", "A", "T", "A">>, <<"r", "c", "d", "a", "t", "a">>,
      <<"I", "G", "N", "O", "R", "E">>, <<"I", "N", "C", "L", "U", "D", "E">>,
      <<"B", "A", "D">>, <<"%", "p", ";">> }

BodyTokens ==
    { <<"a">>, <<" ">>, <<"&", "e", ";">>, MARKED_SECTION_END, MARKED_SECTION_START,
      <<"<", "!", "b", ">">>, <<"<", "!", "[", "C", "D", "A", "T", "A", "[">> }

SectionBase ==
    [DefaultConfig EXCEPT
        !.entity_fn = (<<"e">> :> <<"E">>),
        !.parameter_entity_fn = (<<"p">> :> <<"I", "G", "N", "O", "R", "E">>)]

SectionConfigs ==
    { SectionBase,
      [SectionBase EXCEPT !.marked_section_handling = "KeepUnmodified"],
      [SectionBase EXCEPT !.marked_section_handling = "ExpandAll"],
      [SectionBase EXCEPT !.marked_section_handling = "ExpandAll",
                          !.trim_whitespace = FALSE,
                          !.parameter_entity_fn = (<<"p">> :> <<"B", "A", "D">>)] }

InitSection ==
    /\ pc = "start"
    \* raw keywords are trimmed, so a space in front stands for one behind too
    /\ keywords \in { k \in KeywordStrings(SectionWords, MaxSectionKeywords) :
                        k = <<>> \/ k[Len(k)] # " " }
    /\ \E body \in TokenStrings(BodyTokens, MaxBodyTokens) :
          input = MARKED_SECTION_START \o keywords \o <<"[">> \o body
                  \o MARKED_SECTION_END
    /\ config \in SectionConfigs
    /\ parsed = Unset
    /\ shown = Unset
    /\ reparsed = Unset
    /\ NormIdle
    /\ DeIdle

\* a result, with the events its EventIter yields in place of the EventIter
SectionResult(r) ==
    [st |-> r.st, rest |-> r.rest, err |-> r.err,
     events |-> IF r.st = "Ok" THEN collect(r.out) ELSE <<>>]

\* events::marked_section_declaration on the input
MarkedSectionDeclaration ==
    /\ pc = "start"
    /\ parsed' = SectionResult(marked_section_declaration(input, config))
    /\ pc' = "section"
    /\ UNCHANGED <<input, keywords, config, shown, reparsed, NormVars, DeVars>>

NextSection == MarkedSectionDeclaration

SpecSection == InitSection /\ [][NextSection]_vars

-----------------------------------------------------------------------------
(* Status keywords *)

MaxKeywords == 3

KeywordWords ==
    { <<"C", "D", "A", "T", "A">>, <<"r", "c", "d", "a", "t", "a">>,
      <<"I", "g", "n", "o", "r", "e">>, <<"I", "N", "C", "L", "U", "D", "E">>,
      <<"t", "e", "m", "p">>, <<"B", "A", "D">>, <<"C", "D", "A", "T">> }

InitKeywords ==
    /\ pc = "start"
    /\ keywords \in KeywordStrings(KeywordWords, MaxKeywords)
    /\ input = Unset
    /\ config \in { [DefaultConfig EXCEPT !.marked_section_handling = h] :
                      h \in {"AcceptOnlyCharacterData", "KeepUnmodified", "ExpandAll"} }
    /\ parsed = Unset
    /\ shown = Unset
    /\ reparsed = Unset
    /\ NormIdle
    /\ DeIdle

\* MarkedSectionStatus::from_keywords
FromKeywords ==
    /\ pc = "start"
    /\ parsed' = from_keywords(keywords)
    /\ pc' = "from_keywords"
    /\ UNCHANGED <<input, keywords, config, shown, reparsed, NormVars, DeVars>>

\* MarkedSectionHandling::parse_keywords
ParseKeywords ==
    /\ pc = "start"
    /\ parsed' = parse_keywords(config.marked_section_handling, keywords)
    /\ pc' = "parse_keywords"
    /\ UNCHANGED <<input, keywords, config, shown, reparsed, NormVars, DeVars>>

NextKeywords == FromKeywords \/ ParseKeywords

SpecKeywords == InitKeywords /\ [][NextKeywords]_vars

-----------------------------------------------------------------------------
(* IGNORE bodies *)

MaxIgnoreTokens == 5

IgnoreTokens ==
    { MARKED_SECTION_START, MARKED_SECTION_END, <<"]">>, <<">">>, <<"<", "!">>,
      <<"[">>, <<"\"">>, <<"-", "-">> }

InitIgnore ==
    /\ pc = "start"
    /\ input \in TokenStrings(IgnoreTokens, MaxIgnoreTokens)
    /\ keywords = Unset
    /\ config = DefaultConfig
    /\ parsed = Unset
    /\ shown = Unset
    /\ reparsed = Unset
    /\ NormIdle
    /\ DeIdle

IgnoreResult(r) == [st |-> r.st, rest |-> r.rest, out |-> r.out]

\* raw::marked_section_body_ignore
BodyIgnore ==
    /\ pc = "start"
    /\ parsed' = IgnoreResult(marked_section_body_ignore(input))
    /\ pc' = "ignored"
    /\ UNCHANGED <<input, keywords, config, shown, reparsed, NormVars, DeVars>>

NextIgnore == BodyIgnore

SpecIgnore == InitIgnore /\ [][NextIgnore]_vars

-----------------------------------------------------------------------------
(* Properties of marked sections *)

\* the depth counter: scanning s from offset pos at the given depth, one up
\* at each `<![`, one down at each `]]>`; the offset of the `]]>` that takes
\* the depth below 0, or -1 when there is none
RECURSIVE DepthScan(_, _, _)
DepthScan(s, pos, depth) ==
    IF pos >= Len(s) THEN -1
    ELSE IF StartsWith(Drop(s, pos), <<"]", "]", ">">>)
    THEN IF depth = 0 THEN pos ELSE DepthScan(s, pos + 3, depth - 1)
    ELSE IF StartsWith(Drop(s, pos), <<"<", "!", "[">>)
    THEN DepthScan(s, pos + 3, depth + 1)
    ELSE DepthScan(s, pos + 1, depth)

\* the section of the input: its keywords after parameter entity expansion,
\* its combined status and the text after the `[` that opens its body
SectionKeywords ==
    expand_parameter_entities(trim_matches(keywords), config.parameter_entity_fn)
SectionStatus == from_keywords(SectionKeywords.out).status
SectionText == Drop(input, Len(keywords) + 4)

\* the Character event of a CDATA or RCDATA section: its text up to the
\* first `]]>`, trimmed as configured, RCDATA with its entities expanded
CharacterDataEmitted ==
    LET at == Find(SectionText, <<"]", "]", ">">>)
        chars == trim(config, Take(SectionText, at))
        expanded == expand_entities(chars, config.entity_fn)
    IN  /\ at >= 0
        /\ IF SectionStatus = "CData"
           THEN parsed.st = "Ok" /\ parsed.events = <<Character(chars)>>
           ELSE IF expanded.ok
           THEN parsed.st = "Ok" /\ parsed.events = <<Character(expanded.out)>>
           ELSE parsed.st = "Failure"
        /\ parsed.st = "Ok" => parsed.rest = Drop(SectionText, at + 3)

\* the MarkedSection event of a section kept unmodified: the keywords and
\* the raw text between the `[` and the `]]>` that ends the section
MarkedSectionEmitted ==
    LET section == Take(SectionText, Len(SectionText) - Len(parsed.rest) - 3)
        at == IF SectionStatus = "Ignore" THEN DepthScan(SectionText, 0, 0)
              ELSE Find(SectionText, <<"]", "]", ">">>)
    IN  /\ SectionStatus # "Include" => (parsed.st = "Ok" <=> at >= 0)
        /\ parsed.st = "Ok" =>
              /\ parsed.events = <<MarkedSection(SectionKeywords.out, section)>>
              /\ SectionText = section \o <<"]", "]", ">">> \o parsed.rest
              /\ SectionStatus # "Include" => Len(section) = at

C6_IncludeBodyFullyParsed ==
    (/\ pc = "section"
     /\ config.marked_section_handling = "ExpandAll"
     /\ SectionKeywords.ok
     /\ from_keywords(SectionKeywords.out).ok
     /\ SectionStatus = "Include"
     /\ parsed.st = "Ok") =>
        LET body == Take(SectionText, Len(SectionText) - Len(parsed.rest) - 3)
            inner == content(body, config, "StopParsing")
        IN  /\ inner.st = "Ok"
            /\ inner.rest = <<>>
            /\ parsed.events = inner.out

\* C7: marked_section_body_ignore ends the body at the same `]]>` as the
\* depth counter that starts at 0, goes up at each `<![`, down at each `]]>`
\* and stops at -1, and it fails exactly when the counter never gets there;
\* quotes, comments and tags do not protect a `]]>`.
C7_IgnoreIsDepthCounter ==
    pc = "ignored" =>
        LET at == DepthScan(input, 0, 0) IN
        IF at < 0 THEN parsed.st # "Ok"
        ELSE /\ parsed.st = "Ok"
             /\ parsed.out = Take(input, at)
             /\ parsed.rest = Drop(input, at + 3)

\* a body with a nested pair, whose end is not the first `]]>`
C7_Witness ==
    /\ pc = "ignored"
    /\ parsed.st = "Ok"
    /\ Find(parsed.out, <<"]", "]", ">">>) >= 0
    /\ \E i \in DOMAIN parsed.out : parsed.out[i] = "\""
    /\ parsed.rest # <<>>

\* C8: in AcceptOnlyCharacterData mode a status keyword string is accepted
\* if and only if it is, ignoring ASCII case, exactly CDATA or exactly
\* RCDATA; every other string is rejected.
C8_AcceptOnlyCharacterData ==
    (pc = "parse_keywords" /\ config.marked_section_handling = "AcceptOnlyCharacterData") =>
        LET upper == to_uppercase(keywords) IN
        /\ parsed.ok <=> upper \in {<<"C", "D", "A", "T", "A">>,
                                    <<"R", "C", "D", "A", "T", "A">>}
        /\ parsed.ok => parsed.status = (IF Len(upper) = 5 THEN "CData" ELSE "RcData")
        /\ ~parsed.ok => parsed.keyword = keywords

\* a combination of two keywords, valid together in the other modes with
\* status CDATA, rejected
C8_Witness ==
    /\ pc = "parse_keywords"
    /\ config.marked_section_handling = "AcceptOnlyCharacterData"
    /\ ~parsed.ok
    /\ Len(split_ascii_whitespace(keywords)) = 2
    /\ from_keywords(keywords).ok
    /\ from_keywords(keywords).status = "CData"

\* the status of one keyword, "" for a word that is none of the five
KeywordStatus(word) ==
    LET upper == to_uppercase(word) IN
    IF upper = <<"I", "G", "N", "O", "R", "E">> THEN "Ignore"
    ELSE IF upper = <<"C", "D", "A", "T", "A">> THEN "CData"
    ELSE IF upper = <<"R", "C", "D", "A", "T", "A">> THEN "RcData"
    ELSE IF upper \in {<<"I", "N", "C", "L", "U", "D", "E">>, <<"T", "E", "M", "P">>}
    THEN "Include"
    ELSE ""

\* the words with those at i and j exchanged
Exchanged(words, i, j) ==
    [k \in DOMAIN words |-> IF k = i THEN words[j] ELSE IF k = j THEN words[i] ELSE words[k]]

\* C9: from_keywords returns the maximum, under INCLUDE < RCDATA < CDATA <
\* IGNORE, of the statuses of the whitespace-separated keywords (ASCII case
\* ignored, TEMP counting as INCLUDE), INCLUDE for no keyword, and otherwise
\* the leftmost keyword that is not one of the five as the error; the Ok
\* result does not depend on the order of the keywords.
C9_FromKeywordsIsMaximum ==
    pc = "from_keywords" =>
        LET words == split_ascii_whitespace(keywords)
            statuses == { KeywordStatus(words[i]) : i \in DOMAIN words }
            invalid == { i \in DOMAIN words : KeywordStatus(words[i]) = "" }
        IN  IF invalid # {}
            THEN /\ ~parsed.ok
                 /\ parsed.keyword = words[CHOOSE i \in invalid : \A j \in invalid : i <= j]
            ELSE /\ parsed.ok
                 /\ parsed.status =
                        IF "Ignore" \in statuses THEN "Ignore"
                        ELSE IF "CData" \in statuses THEN "CData"
                        ELSE IF "RcData" \in statuses THEN "RcData"
                        ELSE "Include"
                 /\ \A i, j \in DOMAIN words :
                        from_keywords(Join(Exchanged(words, i, j))) = parsed

\* three keywords with the highest one first, and the empty list
C9_Witness ==
    /\ pc = "from_keywords"
    /\ parsed.ok
    /\ LET words == split_ascii_whitespace(keywords) IN
       /\ Len(words) = 3
       /\ KeywordStatus(words[1]) = "Ignore"
       /\ KeywordStatus(words[2]) = "RcData"
       /\ KeywordStatus(words[3]) = "CData"
       /\ parsed.status = "Ignore"

\* the first word of the keywords that the handling mode does not accept,
\* with its offset in the keywords: <<word, offset>>, or <<>> for none
RECURSIVE FirstOffending(_, _, _)
FirstOffending(kws, offset, handling) ==
    LET lead == PrefixLen(kws, Whitespace, TRUE)
        word == Take(Drop(kws, lead), PrefixLen(Drop(kws, lead), Whitespace, FALSE))
        accepted == IF handling = "AcceptOnlyCharacterData"
                    THEN KeywordStatus(word) \in {"CData", "RcData"}
                    ELSE KeywordStatus(word) # ""
    IN  IF word = <<>> THEN <<>>
        ELSE IF ~accepted THEN <<word, offset + lead>>
        ELSE FirstOffending(Drop(kws, lead + Len(word)), offset + lead + Len(word), handling)

\* C10: when the status keywords of a marked section are invalid or
\* rejected, parsing fails with InvalidMarkedSectionKeyword(keyword) where
\* keyword is the first offending keyword, and the error location is that
\* keyword in the source. (Stated for keywords written without parameter
\* entities, one of which is not accepted by the handling mode.)
C10_KeywordErrorNamesFirstOffender ==
    (/\ pc = "section"
     /\ parsed.st = "Failure"
     /\ parsed.err.kind = "InvalidMarkedSectionKeyword"
     /\ \A i \in DOMAIN keywords : keywords[i] # "%"
     /\ FirstOffending(keywords, 0, config.marked_section_handling) # <<>>) =>
        LET first == FirstOffending(keywords, 0, config.marked_section_handling) IN
        /\ parsed.err.arg = first[1]
        /\ Len(input) - Len(parsed.rest) = 3 + first[2]

-----------------------------------------------------------------------------
(* Attributes: one attribute under each configuration *)

MaxValueTokens == 3

ValueTokens ==
    { <<" ">>, <<"v">>, <<"&", "e", ";">>, <<"&", "#", "3", "3", ";">>,
      <<"&", "u", ";">> }

\* the sequences of up to n of the tokens
TokenSeqs(tokens, n) == UNION { [1..k -> tokens] : k \in 0..n }

\* "" for an unquoted value
Quotes == { <<>>, <<"'">>, <<"\"">> }

AttributeText(quote, value) == <<"a", "=">> \o quote \o value \o quote

AttributeInputs ==
    { AttributeText(quote, Flatten(ts)) :
        quote \in Quotes, ts \in TokenSeqs(ValueTokens, MaxValueTokens) }

AttributeConfigs ==
    { [DefaultConfig EXCEPT !.trim_whitespace = t, !.entity_fn = f] :
        t \in BOOLEAN, f \in {NoEntities, <<"e">> :> <<"E">>} }

InitAttribute ==
    /\ pc = "start"
    /\ input \in AttributeInputs
    /\ keywords = Unset
    /\ config \in AttributeConfigs
    /\ parsed = Unset
    /\ shown = Unset
    /\ reparsed = Unset
    /\ NormIdle
    /\ DeIdle

AttributeResult(r) == [st |-> r.st, err |-> r.err, event |-> r.out]

\* events::attribute on the input
ParseAttribute ==
    /\ pc = "start"
    /\ parsed' = AttributeResult(attribute(input, config))
    /\ pc' = "attribute"
    /\ UNCHANGED <<input, keywords, config, shown, reparsed, NormVars, DeVars>>

NextAttribute == ParseAttribute

SpecAttribute == InitAttribute /\ [][NextAttribute]_vars

\* the entity a value token refers to, <<>> for a token that is no entity
\* reference
TokenEntity(token) == IF Len(token) = 3 THEN <<token[2]>> ELSE <<>>

\* the tokens that refer to an entity the lookup f does not define
Undefined(ts, f) ==
    { i \in DOMAIN ts : TokenEntity(ts[i]) # <<>> /\ TokenEntity(ts[i]) \notin DOMAIN f }

\* what a value token stands for under a lookup f that defines its entity
TokenExpansion(token, f) ==
    IF token = <<"&", "#", "3", "3", ";">> THEN <<"!">>
    ELSE IF TokenEntity(token) # <<>> THEN f[TokenEntity(token)]
    ELSE token

\* C11: a quoted attribute value (single or double quotes) is replaceable
\* character data: its references are expanded with the configured lookup
\* (a reference to an undefined entity fails the parse), while an unquoted
\* value is the literal text, references included; the value is not
\* whitespace-trimmed in either case, whatever trim_whitespace is.
C11_AttributeValue ==
    pc = "attribute" =>
        \A quote \in Quotes, ts \in TokenSeqs(ValueTokens, MaxValueTokens) :
            input = AttributeText(quote, Flatten(ts)) =>
                IF quote = <<>>
                THEN (ts # <<>> /\ \A i \in DOMAIN ts : ts[i] # <<" ">>) =>
                         /\ parsed.st = "Ok"
                         /\ parsed.event = Attribute(<<"a">>, <<Flatten(ts)>>)
                ELSE IF Undefined(ts, config.entity_fn) = {}
                THEN /\ parsed.st = "Ok"
                     /\ parsed.event =
                            Attribute(<<"a">>,
                                <<Flatten([i \in DOMAIN ts |->
                                              TokenExpansion(ts[i], config.entity_fn)])>>)
                ELSE /\ parsed.st = "Failure"
                     /\ parsed.err.kind = "UndefinedEntity"
                     /\ \E i \in Undefined(ts, config.entity_fn) :
                            /\ parsed.err.arg = TokenEntity(ts[i])
                            /\ \A j \in Undefined(ts, config.entity_fn) : i <= j

\* a quoted value with a space in front and a defined entity, parsed with
\* trim_whitespace on: the entity is expanded and the space is kept
C11_Witness ==
    /\ pc = "attribute"
    /\ config.trim_whitespace
    /\ input = AttributeText(<<"'">>, <<" ", "&", "e", ";">>)
    /\ parsed.st = "Ok"
    /\ parsed.event.value = << <<" ", "E">> >>

-----------------------------------------------------------------------------
(* Properties of Character events *)

-----------------------------------------------------------------------------
(* Names: one name under each normalization *)

MaxNameLen == 3

NameLetters == {"a", "B", "U+00FC", "U+00DC", "U+00DF", "U+984C"}

NameInputs == UNION { [1..k -> NameLetters] : k \in 1..MaxNameLen }

InitNames ==
    /\ pc = "start"
    /\ input \in NameInputs
    /\ keywords = Unset
    /\ config \in { [DefaultConfig EXCEPT !.name_normalization = n] :
                      n \in {"Unchanged", "ToLowercase", "ToUppercase"} }
    /\ parsed = Unset
    /\ shown = Unset
    /\ reparsed = Unset
    /\ NormIdle
    /\ DeIdle

\* NameNormalization::normalize on the name
NormalizeName ==
    /\ pc = "start"
    /\ parsed' = normalize(config.name_normalization, input)
    /\ pc' = "normalized"
    /\ UNCHANGED <<input, keywords, config, shown, reparsed, NormVars, DeVars>>

\* events::open_start_tag and events::end_tag on the tags with that name:
\* the names of the two events
ParseTagNames ==
    /\ pc = "start"
    /\ parsed' = << open_start_tag(<<"<">> \o input, config).out.name,
                    end_tag(<<"<", "/">> \o input \o <<">">>, config).out.name >>
    /\ pc' = "tags"
    /\ UNCHANGED <<input, keywords, config, shown, reparsed, NormVars, DeVars>>

NextNames == NormalizeName \/ ParseTagNames

SpecNames == InitNames /\ [][NextNames]_vars

IsAscii(c) == c \in Lowercase \cup Uppercase

\* the ASCII-only conversion of a character to the case asked for
AsciiCase(name_normalization, c) ==
    IF name_normalization = "ToLowercase" THEN to_ascii_lowercase(c)
    ELSE IF name_normalization = "ToUppercase" THEN to_ascii_uppercase(c)
    ELSE c

\* C13: name normalization converts the ASCII letters of a name to the
\* requested case and leaves every non-ASCII character unchanged, so the
\* number of characters of the name does not change.
C13_NormalizeIsAsciiOnly ==
    pc = "normalized" =>
        /\ Len(parsed) = Len(input)
        /\ \A i \in DOMAIN input :
               parsed[i] = AsciiCase(config.name_normalization, input[i])

-----------------------------------------------------------------------------
(* Entity expansion: one text under each lookup *)

MaxEntityTokens == 3

InvalidDecimalRef == <<"#", "1", "1", "1", "4", "1", "1", "2">>
InvalidHexRef == <<"#", "x", "1", "1", "0", "0", "0", "0">>

EntityTokens ==
    { <<"a">>, <<";">>, <<"&">>, <<"%">>, <<"#">>, <<"e">>, <<"1">>, <<"x">>,
      <<"&", "u", ";">>,
      <<"&", "#", "3", "3", ";">>, <<"&", "#", "x", "2", "1", ";">>,
      <<"&">> \o InvalidDecimalRef \o <<";">>, <<"&">> \o InvalidHexRef \o <<";">> }

EntityInputs == TokenStrings(EntityTokens, MaxEntityTokens)

\* the lookups: none defined; e defined; e and the names of the two
\* invalid character references defined
EntityLookups ==
    { NoEntities,
      <<"e">> :> <<"E">>,
      (<<"e">> :> <<"E">>) @@ (InvalidDecimalRef :> <<"D">>) @@ (InvalidHexRef :> <<"X">>) }

InitEntities ==
    /\ pc = "start"
    /\ input \in EntityInputs
    /\ keywords = Unset
    /\ config \in { [DefaultConfig EXCEPT !.entity_fn = f, !.parameter_entity_fn = f] :
                      f \in EntityLookups }
    /\ parsed = Unset
    /\ shown = Unset
    /\ reparsed = Unset
    /\ NormIdle
    /\ DeIdle

\* entities::expand_character_references
expand_character_references(txt) == expand_entities(txt, NoEntities)

\* entities::expand_entities on the text, with the lookup of the configuration
ExpandEntities ==
    /\ pc = "start"
    /\ parsed' = expand_entities(input, config.entity_fn)
    /\ pc' = "entities"
    /\ UNCHANGED <<input, keywords, config, shown, reparsed, NormVars, DeVars>>

\* entities::expand_parameter_entities on the text
ExpandParameterEntities ==
    /\ pc = "start"
    /\ parsed' = expand_parameter_entities(input, config.parameter_entity_fn)
    /\ pc' = "parameter_entities"
    /\ UNCHANGED <<input, keywords, config, shown, reparsed, NormVars, DeVars>>

\* entities::expand_character_references on the text
ExpandCharacterReferences ==
    /\ pc = "start"
    /\ parsed' = expand_character_references(input)
    /\ pc' = "character_references"
    /\ UNCHANGED <<input, keywords, config, shown, reparsed, NormVars, DeVars>>

NextEntities == ExpandEntities \/ ExpandParameterEntities \/ ExpandCharacterReferences

SpecEntities == InitEntities /\ [][NextEntities]_vars

Expanded == pc \in {"entities", "parameter_entities", "character_references"}

\* the prefix and the lookup of the expansion that was applied
PrefixUsed == IF pc = "parameter_entities" THEN "%" ELSE "&"
LookupUsed ==
    IF pc = "entities" THEN config.entity_fn
    ELSE IF pc = "parameter_entities" THEN config.parameter_entity_fn
    ELSE NoEntities

\* the character at offset i of text, "" past its end
CharAt(txt, i) == IF i < Len(txt) THEN txt[i + 1] ELSE ""

\* the prefix at index i of text starts no reference: it is not followed by
\* a letter, nor by `#` and a letter, nor (for `&`) by `#` and a digit
Malformed(txt, i, prefix) ==
    /\ ~is_alphabetic(CharAt(txt, i))
    /\ CharAt(txt, i) = "#" =>
           /\ ~is_alphabetic(CharAt(txt, i + 1))
           /\ prefix = "&" => CharAt(txt, i + 1) \notin Digits

NoReference(txt, prefix) ==
    \A i \in DOMAIN txt : txt[i] = prefix => Malformed(txt, i, prefix)

\* C14: expand_entities (prefix `&`) and expand_parameter_entities (prefix
\* `%`) return the text unchanged, without calling the lookup, when the
\* prefix does not occur in it or every occurrence is malformed (a prefix
\* at the end, `&;`, `&&`, `&#`, `&#;`, `&##`, and `%#1;` for parameter
\* entities).
C14_NoReferenceIsNoOp ==
    (Expanded /\ NoReference(input, PrefixUsed)) =>
        /\ parsed.ok
        /\ parsed.out = input
        /\ parsed.calls = <<>>

\* `%#1` expanded as parameter entities with a lookup that defines names
C14_Witness ==
    /\ pc = "parameter_entities"
    /\ input = <<"%", "#", "1">>
    /\ config.parameter_entity_fn # NoEntities
    /\ parsed.ok
    /\ parsed.out = input

\* C15: in expand_entities a numeric character reference whose number is no
\* Unicode scalar value, decimal (`&#1114112;`) or hexadecimal
\* (`&#x110000;`), is passed to the lookup by its name, `#` included, and
\* the lookup decides: its text replaces the reference, or the expansion
\* fails with that name.  A valid one is replaced by its character.
C15_InvalidCharRefGoesToLookup ==
    pc = "entities" =>
        /\ input \in { <<"&", "#", "3", "3", ";">>, <<"&", "#", "x", "2", "1", ";">> } =>
               parsed.ok /\ parsed.out = <<"!">> /\ parsed.calls = <<>>
        /\ \A n \in {InvalidDecimalRef, InvalidHexRef} :
               input = <<"&">> \o n \o <<";">> =>
                   /\ parsed.calls = <<n>>
                   /\ IF n \in DOMAIN config.entity_fn
                      THEN parsed.ok /\ parsed.out = config.entity_fn[n]
                      ELSE ~parsed.ok /\ parsed.name = n

\* the name of the entity reference that t, the text after a prefix, starts
\* with, or <<>>: a name, or `#` and a name, that is not (where character
\* references are expanded) `#x` and the hexadecimal digits of a character
EntityNameAt(t, char_refs) ==
    LET h == IF StartsWith(t, <<"#">>) THEN 1 ELSE 0
        body == Drop(t, h)
        len == IF body # <<>> /\ is_alphabetic(body[1])
               THEN PrefixLen(body, NameChars, TRUE) ELSE 0
        hex == Take(Tail(body), PrefixLen(Tail(body), HexDigits, TRUE))
    IN  IF len = 0 THEN <<>>
        ELSE IF /\ char_refs /\ h = 1 /\ body[1] = "x" /\ hex # <<>>
                /\ char_from_u32(ParseCode(hex, 16, 0)) # <<>>
        THEN <<>>
        ELSE Take(t, h + len)

\* the names of the entity references of text from offset i on, left to right
RECURSIVE EntityNames(_, _, _, _)
EntityNames(txt, i, prefix, char_refs) ==
    IF i >= Len(txt) THEN <<>>
    ELSE IF txt[i + 1] = prefix /\ EntityNameAt(Drop(txt, i + 1), char_refs) # <<>>
    THEN <<EntityNameAt(Drop(txt, i + 1), char_refs)>>
             \o EntityNames(txt, i + 1, prefix, char_refs)
    ELSE EntityNames(txt, i + 1, prefix, char_refs)

\* the entity references of the input that the lookup used does not define
UndefinedReferences ==
    LET refs == EntityNames(input, 0, PrefixUsed, PrefixUsed = "&") IN
    { k \in DOMAIN refs : refs[k] \notin DOMAIN LookupUsed }

-----------------------------------------------------------------------------
(* data.rs: Data *)

CData(s) == [kind |-> "CData", s |-> s]
RcData(s) == [kind |-> "RcData", s |-> s]

\* Data::expand_character_references: CData is returned as it is, RcData
\* becomes CData with its character references expanded
Data_expand_character_references(data) ==
    IF data.kind = "CData" THEN [ok |-> TRUE, data |-> data]
    ELSE Let(expand_character_references(data.s), LAMBDA r :
             IF r.ok THEN [ok |-> TRUE, data |-> CData(r.out)]
             ELSE [ok |-> FALSE, name |-> r.name])

\* transforms::extract_data_marked_section: <<data>>, or <<>> for Err
extract_data_marked_section(status_keywords, section) ==
    IF eq_ignore_ascii_case(status_keywords, <<"C", "D", "A", "T", "A">>)
    THEN <<CData(section)>>
    ELSE IF eq_ignore_ascii_case(status_keywords, <<"R", "C", "D", "A", "T", "A">>)
    THEN <<RcData(section)>>
    ELSE <<>>

-----------------------------------------------------------------------------
(* de/buffer.rs: CowBuffer *)

CONSUMED == RcData(<<"*CONSUMED*">>)

-----------------------------------------------------------------------------
(* de/mod.rs: SgmlDeserializer.  A deserializer is a record
   [events, pos, stack, map_key, accumulated_text]; pos counts from 1, so
   that pos = Len(events) + 1 is the cursor past the last event; stack holds
   the positions of the open start tags; map_key and accumulated_text are
   <<>> for None and <<v>> for Some(v).  Every operation returns DeOk with
   the deserializer it leaves and the value it returns, or DeErr. *)

DeOk(d, v) == [ok |-> TRUE, de |-> d, value |-> v]
DeErr(e) == [ok |-> FALSE, error |-> e]

\* the ? operator: the step K that follows a result r
Try(r, K(_)) == IF r.ok THEN K(r) ELSE r

UnexpectedEof == [kind |-> "UnexpectedEof"]
ExpectedStartTag == [kind |-> "ExpectedStartTag"]
UnexpectedMarkedSection == [kind |-> "UnexpectedMarkedSection"]
UnsupportedTag(event) == [kind |-> "UnsupportedTag", tag |-> event]
MismatchedCloseTag(expected, found) ==
    [kind |-> "MismatchedCloseTag", expected |-> expected, found |-> found]
EntityError(n) == [kind |-> "EntityError", name |-> n]
InvalidValue(unexpected) == [kind |-> "InvalidValue", unexpected |-> unexpected]

peek(d) ==
    IF d.pos <= Len(d.events) THEN DeOk(d, d.events[d.pos]) ELSE DeErr(UnexpectedEof)

\* the data normalize_at_cursor expands in an event: <<data>>, or <<>> for
\* an event that has none
DataOf(event) ==
    CASE event.type = "Character" -> <<event.text>>
      [] event.type = "Attribute" -> event.value
      [] event.type = "MarkedSection" ->
            extract_data_marked_section(event.status_keywords, event.section)
      [] OTHER -> <<>>

\* the event once its data is expanded: an attribute keeps its key, a
\* marked section becomes a Character event
WithData(event, data) ==
    IF event.type = "Attribute" THEN Attribute(event.name, <<data>>) ELSE Character(data)

\* r is the result of Data::expand_character_references
ExpandedAt(d, r) ==
    IF r.ok THEN DeOk([d EXCEPT !.events[d.pos] = WithData(d.events[d.pos], r.data)], <<>>)
    ELSE DeErr(EntityError(r.name))

RECURSIVE normalize_at_cursor(_)
advance(d) ==
    IF d.pos <= Len(d.events) THEN normalize_at_cursor([d EXCEPT !.pos = d.pos + 1])
    ELSE DeErr(UnexpectedEof)

normalize_at_cursor(d) ==
    IF d.pos > Len(d.events) THEN DeOk(d, <<>>)
    ELSE Let(d.events[d.pos], LAMBDA event :
        CASE event.type \in {"MarkupDeclaration", "ProcessingInstruction"} -> advance(d)
          [] event.type = "MarkedSection" /\ DataOf(event) = <<>> ->
                DeErr(UnexpectedMarkedSection)
          [] event.type \in {"OpenStartTag", "EndTag"} /\ event.name = <<>> ->
                DeErr(UnsupportedTag(event))
          [] DataOf(event) # <<>> ->
                ExpandedAt(d, Data_expand_character_references(DataOf(event)[1]))
          [] OTHER -> DeOk(d, <<>>))

from_fragment(events) ==
    normalize_at_cursor([events |-> events, pos |-> 1, stack |-> <<>>,
                         map_key |-> <<>>, accumulated_text |-> <<>>])

\* what a scan of the events after the cursor meets first: an OpenStartTag
\* (TRUE) or an EndTag (FALSE); <<>> when it meets neither
RECURSIVE FirstTagFrom(_, _)
FirstTagFrom(events, i) ==
    IF i > Len(events) THEN <<>>
    ELSE IF events[i].type = "OpenStartTag" THEN <<TRUE>>
    ELSE IF events[i].type = "EndTag" THEN <<FALSE>>
    ELSE FirstTagFrom(events, i + 1)

\* a panic: unreachable!(), unwrap() on None, or a slice that starts past
\* the end
Panic(what) == [kind |-> "Panic", what |-> what]

\* the value is contains_child_elements; the slice events[pos + 1..] does
\* not exist when the cursor is past the last event
peek_content_type(d) ==
    IF d.pos > Len(d.events) THEN DeErr(Panic("slice"))
    ELSE Let(FirstTagFrom(d.events, d.pos + 1), LAMBDA found :
             IF found = <<>> THEN DeErr(UnexpectedEof) ELSE DeOk(d, found[1]))

expect_start_tag(d) ==
    IF d.pos <= Len(d.events) /\ d.events[d.pos].type = "OpenStartTag"
    THEN DeOk(d, d.events[d.pos].name)
    ELSE DeErr(ExpectedStartTag)

tag_at_stack_pos(d, p) == d.events[d.stack[p]].name

push_elt(d) ==
    Try(expect_start_tag(d), LAMBDA stag :
    Try(advance([d EXCEPT !.stack = Append(d.stack, d.pos)]), LAMBDA a :
    DeOk(a.de, stag.value)))

\* a pop that leaves the stack as it is
StackPop_skipped(d) == d

\* self.stack.pop()
StackPop(d) == [d EXCEPT !.stack = Take(d.stack, Len(d.stack) - 1)]

\* the loop of pop_elt; stack_size is the size of the stack when pop_elt
\* was called
RECURSIVE PopEltLoop(_, _)
PopEltLoop(d, stack_size) ==
    Try(peek(d), LAMBDA p :
        CASE p.value.type = "XmlCloseEmptyElement" -> advance(StackPop(d))
          [] p.value.type = "EndTag" ->
                IF p.value.name # tag_at_stack_pos(d, stack_size)
                THEN DeErr(MismatchedCloseTag(tag_at_stack_pos(d, stack_size), p.value.name))
                ELSE advance(StackPop(d))
          [] p.value.type = "OpenStartTag" ->
                Try(push_elt(d), LAMBDA pushed :
                Try(PopEltLoop(pushed.de, Len(pushed.de.stack)), LAMBDA popped :
                PopEltLoop(popped.de, stack_size)))
          [] OTHER -> Try(advance(d), LAMBDA a : PopEltLoop(a.de, stack_size)))

\* pop_elt that takes the first end tag it meets for the end of the element,
\* without pushing and popping the nested start tags
RECURSIVE PopEltFlatLoop(_, _)
PopEltFlatLoop(d, stack_size) ==
    Try(peek(d), LAMBDA p :
        CASE p.value.type = "XmlCloseEmptyElement" -> advance(StackPop(d))
          [] p.value.type = "EndTag" ->
                IF p.value.name # tag_at_stack_pos(d, stack_size)
                THEN DeErr(MismatchedCloseTag(tag_at_stack_pos(d, stack_size), p.value.name))
                ELSE advance(StackPop(d))
          [] OTHER -> Try(advance(d), LAMBDA a : PopEltFlatLoop(a.de, stack_size)))

pop_elt_first_end_tag(d) == PopEltFlatLoop(d, Len(d.stack))

pop_elt(d) == PopEltLoop(d, Len(d.stack))

RECURSIVE advance_to_content(_)
advance_to_content(d) ==
    Try(peek(d), LAMBDA p :
        IF p.value.type \in {"Attribute", "CloseStartTag"}
        THEN Try(advance(d), LAMBDA a : advance_to_content(a.de))
        ELSE DeOk(d, <<>>))

\* CowBuffer::push_data on the Character event at the cursor
PushDataAt(d) == [d EXCEPT !.events[d.pos].text = CONSUMED]

\* the loop of consume_text; buffer is the text collected so far
RECURSIVE ConsumeTextLoop(_, _, _)
ConsumeTextLoop(d, starting_stack_size, buffer) ==
    Try(peek(d), LAMBDA p :
        CASE p.value.type = "OpenStartTag" ->
                Try(push_elt(d), LAMBDA pushed :
                ConsumeTextLoop(pushed.de, starting_stack_size, buffer))
          [] p.value.type = "EndTag" ->
                Try(pop_elt(d), LAMBDA popped :
                IF Len(popped.de.stack) = starting_stack_size
                THEN DeOk(popped.de, buffer)
                ELSE ConsumeTextLoop(popped.de, starting_stack_size, buffer))
          [] p.value.type = "Character" ->
                Try(advance(PushDataAt(d)), LAMBDA a :
                ConsumeTextLoop(a.de, starting_stack_size, buffer \o p.value.text.s))
          [] OTHER ->
                Try(advance(d), LAMBDA a :
                ConsumeTextLoop(a.de, starting_stack_size, buffer)))

consume_text(d) ==
    IF d.accumulated_text # <<>>
    THEN DeOk([d EXCEPT !.accumulated_text = <<>>], d.accumulated_text[1])
    ELSE Try(peek(d), LAMBDA p :
        IF p.value.type = "Attribute"
        THEN Try(advance([d EXCEPT !.events[d.pos].value = <<>>]), LAMBDA a :
             DeOk(a.de, IF p.value.value = <<>> THEN <<>> ELSE p.value.value[1].s))
        ELSE Try(push_elt(d), LAMBDA pushed :
             ConsumeTextLoop(pushed.de, Len(d.stack), <<>>)))

\* the strings deserialize_bool accepts: <<TRUE>>, <<FALSE>>, or <<>>
BoolFromStr(str) ==
    IF str = <<"1">> \/ eq_ignore_ascii_case(str, <<"t", "r", "u", "e">>) THEN <<TRUE>>
    ELSE IF str = <<"0">> \/ eq_ignore_ascii_case(str, <<"f", "a", "l", "s", "e">>)
    THEN <<FALSE>>
    ELSE <<>>

VisitBoolStr(d, str) ==
    Let(BoolFromStr(str), LAMBDA b :
        IF b = <<>> THEN DeErr(InvalidValue(str)) ELSE DeOk(d, b[1]))

\* the value of an Attribute event as a string, "" when it has none
AttributeStr(event) == IF event.value = <<>> THEN <<>> ELSE event.value[1].s

\* deserialize_bool where a value is compared with the key exactly
deserialize_bool_exact_key(d) ==
    Try(peek(d), LAMBDA p :
        IF /\ p.value.type = "Attribute"
           /\ \/ AttributeStr(p.value) = <<>>
              \/ AttributeStr(p.value) = p.value.name
        THEN Try(advance(d), LAMBDA a : DeOk(a.de, TRUE))
        ELSE Try(consume_text(d), LAMBDA t : VisitBoolStr(t.de, t.value)))

deserialize_bool(d) ==
    Try(peek(d), LAMBDA p :
        IF /\ p.value.type = "Attribute"
           /\ \/ AttributeStr(p.value) = <<>>
              \/ eq_ignore_ascii_case(AttributeStr(p.value), p.value.name)
        THEN Try(advance(d), LAMBDA a : DeOk(a.de, TRUE))
        ELSE Try(consume_text(d), LAMBDA t : VisitBoolStr(t.de, t.value)))

deserialize_str(d) == consume_text(d)

\* deserialize_unit; on any event other than a start tag or an attribute it
\* goes to deserialize_any, which fails there with ExpectedStartTag
deserialize_unit(d) ==
    IF d.accumulated_text # <<>> THEN DeOk([d EXCEPT !.accumulated_text = <<>>], <<>>)
    ELSE Try(peek(d), LAMBDA p :
        CASE p.value.type = "OpenStartTag" ->
                Try(push_elt(d), LAMBDA pushed : pop_elt(pushed.de))
          [] p.value.type = "Attribute" -> advance(d)
          [] OTHER -> DeErr(ExpectedStartTag))

\* Ok(Some(value)) for the result of the seed
SomeOf(r) == IF r.ok THEN DeOk(r.de, <<r.value>>) ELSE r

-----------------------------------------------------------------------------
(* de/mod.rs: deserialize_enum and EnumAccess.  kind is the kind of the
   variant the visitor finds under the name it is given: a unit variant, or
   a newtype variant that holds a string *)

EnumKinds == {"unit", "newtype"}

\* the map key that led to the enum is the name of the tag at the cursor
enum_within_element(d) ==
    /\ d.map_key # <<>>
    /\ expect_start_tag(d).ok
    /\ expect_start_tag(d).value = d.map_key[1]

\* the first part of deserialize_enum: the value is
\* [enum_within_element, use_tag_name_for_variant]
EnumEntry(d) ==
    IF enum_within_element(d)
    THEN Try(peek_content_type(d), LAMBDA peeked :
             IF peeked.value
             THEN Try(push_elt(d), LAMBDA pushed :
                  Try(advance_to_content(pushed.de), LAMBDA at_content :
                  DeOk(at_content.de, [enum_within_element |-> TRUE,
                                       use_tag_name_for_variant |-> TRUE])))
             ELSE DeOk(d, [enum_within_element |-> TRUE,
                           use_tag_name_for_variant |-> FALSE]))
    ELSE DeOk(d, [enum_within_element |-> FALSE, use_tag_name_for_variant |-> TRUE])

\* EnumAccess::variant_seed: the value is the name of the variant
variant_seed(d, use_tag_name_for_variant) ==
    IF use_tag_name_for_variant THEN expect_start_tag(d) ELSE deserialize_str(d)

\* VariantAccess::unit_variant
unit_variant(d, use_tag_name_for_variant) ==
    IF use_tag_name_for_variant THEN Try(push_elt(d), LAMBDA pushed : pop_elt(pushed.de))
    ELSE DeOk(d, <<>>)

\* VariantAccess::newtype_variant_seed for a string: the value is <<string>>
newtype_variant_seed(d) == SomeOf(deserialize_str(d))

\* visit_enum for a visitor generated for an enum: the value is
\* [variant, body], with body <<>> for a unit variant
visit_enum(d, use_tag_name_for_variant, kind) ==
    Try(variant_seed(d, use_tag_name_for_variant), LAMBDA v :
    Try(IF kind = "unit" THEN unit_variant(v.de, use_tag_name_for_variant)
        ELSE newtype_variant_seed(v.de),
        LAMBDA b : DeOk(b.de, [variant |-> v.value, body |-> b.value])))

\* the last part of deserialize_enum
EnumExit(entry, r) ==
    IF entry.enum_within_element /\ entry.use_tag_name_for_variant
    THEN Try(pop_elt(r.de), LAMBDA popped : DeOk(popped.de, r.value))
    ELSE r

deserialize_enum(d, kind) ==
    Try(EnumEntry(d), LAMBDA entry :
    Try(visit_enum(entry.de, entry.value.use_tag_name_for_variant, kind), LAMBDA r :
    EnumExit(entry.value, r)))

\* the Deserializer method a visitor of the given shape calls
Deserialize(d, hint) ==
    CASE hint = "bool" -> deserialize_bool(d)
      [] hint = "str" -> deserialize_str(d)
      [] hint = "unit" -> deserialize_unit(d)
      [] hint = "unit_variant" -> deserialize_enum(d, "unit")
      [] hint = "newtype_variant" -> deserialize_enum(d, "newtype")

-----------------------------------------------------------------------------
(* de/mod.rs: MapAccess.  hint is the shape of the values the visitor
   asks for *)

DOLLAR_VALUE == <<"$value">>

ContentStrategy(d, emit_value) ==
    IF emit_value
    THEN Let(peek_content_type(d), LAMBDA peeked :
             IF peeked.ok /\ peeked.value THEN "ElementsAreDollarValue" ELSE "TextOnly")
    ELSE "ElementsAreMapEntries"

MapAccess_for(content_strategy, hint) ==
    [kind |-> "MapAccess",
     map_key |-> <<>>,
     content_strategy |-> content_strategy,
     text_content |-> IF content_strategy = "TextOnly" THEN << <<>> >> ELSE <<>>,
     next_entry_is_dollarvalue |-> FALSE,
     hint |-> hint]

MapAccess_new(d, emit_value, hint) == MapAccess_for(ContentStrategy(d, emit_value), hint)

\* the value is [key, access]: the key handed to the visitor (<<>> for None)
\* and the MapAccess as the call leaves it
KeyOk(d, key, a) == DeOk(d, [key |-> key, access |-> a])

\* next_key_seed where a child element is always keyed by its tag name
RECURSIVE next_key_seed_tag_names(_, _)
next_key_seed_tag_names(d, a) ==
    Try(peek(d), LAMBDA p :
        CASE p.value.type \in {"EndTag", "XmlCloseEmptyElement"} ->
                IF a.text_content # <<>>
                THEN KeyOk(d, <<DOLLAR_VALUE>>,
                           [a EXCEPT !.next_entry_is_dollarvalue = TRUE,
                                     !.map_key = <<DOLLAR_VALUE>>])
                ELSE KeyOk(d, <<>>, a)
          [] p.value.type = "Attribute" -> KeyOk(d, <<p.value.name>>, a)
          [] p.value.type = "CloseStartTag" ->
                Try(advance(d), LAMBDA x : next_key_seed_tag_names(x.de, a))
          [] p.value.type = "OpenStartTag" ->
                KeyOk(d, <<p.value.name>>, [a EXCEPT !.map_key = <<p.value.name>>])
          [] p.value.type = "Character" ->
                IF a.text_content # <<>>
                THEN Try(advance(PushDataAt(d)), LAMBDA x :
                         next_key_seed_tag_names(
                             x.de, [a EXCEPT !.text_content = <<@[1] \o p.value.text.s>>]))
                ELSE Try(advance(d), LAMBDA x : next_key_seed_tag_names(x.de, a))
          [] OTHER -> DeErr(Panic("unreachable")))

RECURSIVE next_key_seed(_, _)
next_key_seed(d, a) ==
    Try(peek(d), LAMBDA p :
        CASE p.value.type \in {"EndTag", "XmlCloseEmptyElement"} ->
                IF a.text_content # <<>>
                THEN KeyOk(d, <<DOLLAR_VALUE>>,
                           [a EXCEPT !.next_entry_is_dollarvalue = TRUE,
                                     !.map_key = <<DOLLAR_VALUE>>])
                ELSE KeyOk(d, <<>>, a)
          [] p.value.type = "Attribute" -> KeyOk(d, <<p.value.name>>, a)
          [] p.value.type = "CloseStartTag" ->
                Try(advance(d), LAMBDA x : next_key_seed(x.de, a))
          [] p.value.type = "OpenStartTag" ->
                (CASE a.content_strategy = "ElementsAreMapEntries" ->
                        KeyOk(d, <<p.value.name>>, [a EXCEPT !.map_key = <<p.value.name>>])
                   [] a.content_strategy = "ElementsAreDollarValue" ->
                        KeyOk(d, <<DOLLAR_VALUE>>, a)
                   [] a.content_strategy = "TextOnly" -> DeErr(Panic("unreachable")))
          [] p.value.type = "Character" ->
                IF a.text_content # <<>>
                THEN Try(advance(PushDataAt(d)), LAMBDA x :
                         next_key_seed(
                             x.de, [a EXCEPT !.text_content = <<@[1] \o p.value.text.s>>]))
                ELSE Try(advance(d), LAMBDA x : next_key_seed(x.de, a))
          [] OTHER -> DeErr(Panic("unreachable")))

\* the deserializer as next_value_seed hands it to the seed: with the
\* accumulated text for the $value entry, as it is for an attribute, and
\* with the map key otherwise
ValueDeserializer(d, a) ==
    IF a.next_entry_is_dollarvalue THEN [d EXCEPT !.accumulated_text = a.text_content]
    ELSE IF d.pos <= Len(d.events) /\ d.events[d.pos].type = "Attribute" THEN d
    ELSE [d EXCEPT !.map_key = a.map_key]

\* accumulated_text or map_key is set back to None once the value is
\* deserialized; r is the result of the seed
AfterValue(d, a, r) ==
    IF ~r.ok THEN r
    ELSE IF a.next_entry_is_dollarvalue
    THEN DeOk([r.de EXCEPT !.accumulated_text = <<>>], r.value)
    ELSE IF d.pos <= Len(d.events) /\ d.events[d.pos].type = "Attribute" THEN r
    ELSE DeOk([r.de EXCEPT !.map_key = <<>>], r.value)

\* the value is the value handed to the visitor; the MapAccess it leaves
\* is MapAccessAfterValue
next_value_seed(d, a) ==
    IF a.next_entry_is_dollarvalue /\ a.text_content = <<>> THEN DeErr(Panic("unwrap"))
    ELSE AfterValue(d, a, Deserialize(ValueDeserializer(d, a), a.hint))

MapAccessAfterValue(d, a) ==
    IF a.next_entry_is_dollarvalue THEN [a EXCEPT !.text_content = <<>>]
    ELSE IF d.pos <= Len(d.events) /\ d.events[d.pos].type = "Attribute" THEN a
    ELSE [a EXCEPT !.map_key = <<>>]

-----------------------------------------------------------------------------
(* Deserialization: a fragment that starts with the start tag of an element
   a, with at most one attribute b, followed by content tokens *)

MaxContentTokens == 3

AttributeValues ==
    { <<>>, <<CData(<<>>)>>, <<CData(<<"B">>)>>, <<CData(<<"0">>)>>,
      <<CData(<<"t", "R", "u", "e">>)>>, <<CData(<<"x">>)>>,
      <<RcData(<<"&", "#", "4", "9", ";">>)>> }

RootTags ==
    { <<OpenStartTag(<<"a">>), CloseStartTag>>,
      <<OpenStartTag(<<"a">>), XmlCloseEmptyElement>>,
      <<OpenStartTag(<<"a">>), Attribute(<<"b">>, <<>>), XmlCloseEmptyElement>> }
    \cup { <<OpenStartTag(<<"a">>), Attribute(<<"b">>, v), CloseStartTag>> :
             v \in AttributeValues }

ContentTokens ==
    { <<Character(CData(<<" ">>))>>,
      <<Character(CData(<<"1">>))>>,
      <<Character(CData(<<"x">>))>>,
      <<OpenStartTag(<<"a">>), XmlCloseEmptyElement>>,
      <<OpenStartTag(<<"b">>), XmlCloseEmptyElement>>,
      <<OpenStartTag(<<"b">>), CloseStartTag>>,
      <<OpenStartTag(<<"b">>), CloseStartTag, Character(CData(<<"1">>)), EndTag(<<"b">>)>>,
      <<EndTag(<<"b">>)>>,
      <<EndTag(<<"a">>)>> }

Contents == TokenStrings(ContentTokens, MaxContentTokens)

FlatFragments == UNION { { root \o rest : rest \in Contents } : root \in RootTags }

\* and the fragments with one more level: an element a whose first child is
\* an element b with content of its own
MaxInnerTokens == 2

InnerTokens ==
    ContentTokens \ { <<OpenStartTag(<<"b">>), CloseStartTag>>, <<EndTag(<<"b">>)>>,
                      <<EndTag(<<"a">>)>> }

InnerContents == TokenStrings(InnerTokens, MaxInnerTokens)

NestedFragments ==
    UNION { { <<OpenStartTag(<<"a">>), CloseStartTag, OpenStartTag(<<"b">>), CloseStartTag>>
              \o inner \o <<EndTag(<<"b">>)>> \o rest \o <<EndTag(<<"a">>)>> :
              inner \in InnerContents } :
            rest \in { <<>>, <<OpenStartTag(<<"b">>), XmlCloseEmptyElement>> } }

DeFragments == FlatFragments \cup NestedFragments

\* the shapes a visitor asks for the values of a map: a scalar or an enum
\* for every value, or a sequence for every child element
ScalarHints == {"bool", "str", "unit"}
EnumHints == {"unit_variant", "newtype_variant"}
ValueHints == ScalarHints \cup EnumHints \cup {"seq"}

InitDe ==
    /\ pc = "start"
    /\ input \in DeFragments
    /\ keywords = Unset
    /\ config = DefaultConfig
    /\ parsed = Unset
    /\ shown = Unset
    /\ reparsed = Unset
    /\ NormIdle
    /\ DeIdle

\* what an action leaves of a call that returned r: the deserializer (kept
\* as it was when the call failed: it is not used again), the name of the
\* call with the value or error it returned, and the position of the driver
DeAfter(r) == IF r.ok THEN r.de ELSE de
Returned(call, r) ==
    IF r.ok THEN [call |-> call, ok |-> TRUE, value |-> r.value]
    ELSE [call |-> call, ok |-> FALSE, error |-> r.error]
PcAfter(r, then) == IF r.ok THEN then ELSE "failed"

DeFrame == <<input, keywords, config, parsed, shown, reparsed, NormVars>>

\* SgmlDeserializer::from_fragment
FromFragment ==
    /\ pc = "start"
    /\ \E r \in {from_fragment(input)} :
          /\ de' = IF r.ok THEN r.de ELSE Unset
          /\ ret' = Returned("from_fragment", r)
          /\ pc' = PcAfter(r, "ready")
    /\ UNCHANGED <<access, visited, DeFrame>>

\* a visitor that asks for a bool
DeserializeBool ==
    /\ pc = "ready"
    /\ \E r \in {deserialize_bool(de)} :
          /\ de' = DeAfter(r)
          /\ ret' = Returned("deserialize_bool", r)
          /\ pc' = PcAfter(r, "done")
    /\ UNCHANGED <<access, visited, DeFrame>>

\* the first part of do_map: push_elt, and the look at the content that
\* MapAccess::new takes when emit_value is set, whose errors are dropped
MapEntry(d, emit_value) ==
    Try(push_elt(d), LAMBDA pushed :
        IF emit_value /\ pushed.de.pos > Len(pushed.de.events)
        THEN peek_content_type(pushed.de)
        ELSE pushed)

\* deserialize_struct and deserialize_map, up to the call of visit_map:
\* do_map pushes the element and builds the MapAccess
DeserializeStruct ==
    /\ pc = "ready"
    /\ \E emit_value \in BOOLEAN, hint \in ValueHints :
       \E r \in {MapEntry(de, emit_value)} :
          /\ de' = DeAfter(r)
          /\ ret' = Returned("push_elt", r)
          /\ access' = IF r.ok THEN MapAccess_new(r.de, emit_value, hint) ELSE access
          /\ pc' = PcAfter(r, "key")
    /\ UNCHANGED <<visited, DeFrame>>

KeyAfter(r) ==
    IF r.ok THEN [call |-> "next_key_seed", ok |-> TRUE, value |-> r.value.key]
    ELSE [call |-> "next_key_seed", ok |-> FALSE, error |-> r.error]
AccessAfter(r) == IF r.ok THEN r.value.access ELSE access

\* the visitor asks the MapAccess for the next key
NextKey ==
    /\ pc = "key"
    /\ \E r \in {next_key_seed(de, access)} :
          /\ de' = DeAfter(r)
          /\ ret' = KeyAfter(r)
          /\ access' = AccessAfter(r)
          /\ visited' = IF r.ok /\ r.value.key # <<>>
                        THEN Append(visited, [key |-> r.value.key[1]])
                        ELSE visited
          /\ pc' = IF ~r.ok THEN "failed"
                   ELSE IF r.value.key = <<>> THEN "end_map"
                   ELSE "value"
    /\ UNCHANGED DeFrame

\* the visitor asks the MapAccess for the value of the key it was given
NextValue ==
    /\ pc = "value"
    /\ access.hint # "seq"
    /\ \E r \in {next_value_seed(de, access)} :
          /\ de' = DeAfter(r)
          /\ ret' = Returned("next_value_seed", r)
          /\ access' = IF r.ok THEN MapAccessAfterValue(de, access) ELSE access
          /\ visited' = IF r.ok THEN Append(visited, [value |-> r.value]) ELSE visited
          /\ pc' = PcAfter(r, "key")
    /\ UNCHANGED DeFrame

\* visit_map has returned: do_map pops the element
EndMap ==
    /\ pc = "end_map"
    /\ \E r \in {pop_elt(de)} :
          /\ de' = DeAfter(r)
          /\ ret' = Returned("pop_elt", r)
          /\ pc' = PcAfter(r, "done")
    /\ UNCHANGED <<access, visited, DeFrame>>


-----------------------------------------------------------------------------
(* Properties of the boolean visit *)

\* the text of the element whose content starts at events[j], when the
\* element and its descendants are closed by end tags of their own names:
\* <<text>>, the Character payloads in document order; <<>> otherwise.
\* open holds the names of the elements that are open at j
RECURSIVE PlainText(_, _, _, _)
PlainText(events, j, open, acc) ==
    IF open = <<>> THEN <<acc>>
    ELSE IF j > Len(events) THEN <<>>
    ELSE CASE events[j].type = "Character" ->
                PlainText(events, j + 1, open, acc \o events[j].text.s)
           [] events[j].type = "OpenStartTag" ->
                PlainText(events, j + 1, Append(open, events[j].name), acc)
           [] events[j].type = "EndTag" ->
                IF events[j].name = open[Len(open)]
                THEN PlainText(events, j + 1, Take(open, Len(open) - 1), acc)
                ELSE <<>>
           [] events[j].type \in {"Attribute", "CloseStartTag"} ->
                PlainText(events, j + 1, open, acc)
           [] OTHER -> <<>>

AsciiLower(str) == [i \in DOMAIN str |-> to_ascii_lowercase(str[i])]

\* a step in which a visitor asks the deserializer for a bool: at the top
\* of the fragment, or for the value of a map entry
BoolVisit ==
    \/ pc = "ready" /\ ret'.call = "deserialize_bool"
    \/ pc = "value" /\ ret'.call = "next_value_seed" /\ access.hint = "bool"

\* the visit is made for the $value entry of a text-only element
DollarVisit == pc = "value" /\ access.next_entry_is_dollarvalue

\* the cursor is on an attribute with no value, an empty value, or a value
\* that repeats the name of the attribute
BareAttribute ==
    /\ ~DollarVisit
    /\ de.events[de.pos].type = "Attribute"
    /\ \/ de.events[de.pos].value = <<>>
       \/ de.events[de.pos].value[1].s = <<>>
       \/ AsciiLower(de.events[de.pos].value[1].s) = AsciiLower(de.events[de.pos].name)

\* the string a bool is parsed from: <<string>>, or <<>> when the cursor is
\* on neither an attribute nor an element closed by its end tag
BoolSubject ==
    IF DollarVisit THEN access.text_content
    ELSE IF de.events[de.pos].type = "Attribute" THEN <<de.events[de.pos].value[1].s>>
    ELSE IF de.events[de.pos].type = "OpenStartTag"
    THEN PlainText(de.events, de.pos + 1, <<de.events[de.pos].name>>, <<>>)
    ELSE <<>>

\* <<bool>> for the strings that stand for a bool, <<>> for the others
BoolExpected(str) ==
    IF str = <<"1">> \/ AsciiLower(str) = <<"t", "r", "u", "e">> THEN <<TRUE>>
    ELSE IF str = <<"0">> \/ AsciiLower(str) = <<"f", "a", "l", "s", "e">> THEN <<FALSE>>
    ELSE <<>>

\* the visit returned the bool, or failed with an invalid value error that
\* carries the string
ParsedAs(str) ==
    IF BoolExpected(str) # <<>> THEN ret'.ok /\ ret'.value = BoolExpected(str)[1]
    ELSE ~ret'.ok /\ ret'.error = InvalidValue(str)

-----------------------------------------------------------------------------
(* Properties of the map iteration *)

\* the names of the attributes that follow the start tag at events[i]
RECURSIVE AttributeNames(_, _)
AttributeNames(events, j) ==
    IF j <= Len(events) /\ events[j].type = "Attribute"
    THEN <<events[j].name>> \o AttributeNames(events, j + 1)
    ELSE <<>>

\* the content of the element n that starts at events[j], read off the
\* fragment: <<[children, txt]>> with the names of its child elements and
\* the payloads of its own Character events, or <<>> when the element or a
\* descendant is not closed properly.  open holds the names of the
\* descendants that are open at j
RECURSIVE ElementContent(_, _, _, _, _, _)
ElementContent(events, j, n, open, children, txt) ==
    IF j > Len(events) THEN <<>>
    ELSE CASE events[j].type = "Character" ->
                ElementContent(events, j + 1, n, open, children,
                               IF open = <<>> THEN txt \o events[j].text.s ELSE txt)
           [] events[j].type = "OpenStartTag" ->
                ElementContent(events, j + 1, n, Append(open, events[j].name),
                               IF open = <<>> THEN Append(children, events[j].name)
                               ELSE children,
                               txt)
           [] events[j].type = "XmlCloseEmptyElement" ->
                IF open = <<>> THEN <<>>
                ELSE ElementContent(events, j + 1, n, Take(open, Len(open) - 1), children, txt)
           [] events[j].type = "EndTag" ->
                IF open = <<>>
                THEN IF events[j].name = n THEN <<[children |-> children, txt |-> txt]>>
                     ELSE <<>>
                ELSE IF events[j].name = open[Len(open)]
                THEN ElementContent(events, j + 1, n, Take(open, Len(open) - 1), children, txt)
                ELSE <<>>
           [] OTHER -> ElementContent(events, j + 1, n, open, children, txt)

\* the content of the element whose start tag opens the fragment; an
\* element closed by /> has no children and no text
RootContent ==
    IF input[Len(AttributeNames(input, 2)) + 2].type = "XmlCloseEmptyElement"
    THEN <<[children |-> <<>>, txt |-> <<>>]>>
    ELSE ElementContent(input, Len(AttributeNames(input, 2)) + 3, input[1].name,
                        <<>>, <<>>, <<>>)

\* the keys the visitor received, in order
Keys == SelectSeq(visited, LAMBDA entry : "key" \in DOMAIN entry)

\* the struct being deserialized lists a $value field
EmitValue == access.content_strategy # "ElementsAreMapEntries"

KeysOfChildren(children) ==
    IF ~EmitValue THEN [i \in DOMAIN children |-> [key |-> children[i]]]
    ELSE IF children # <<>> THEN [i \in DOMAIN children |-> [key |-> DOLLAR_VALUE]]
    ELSE <<[key |-> DOLLAR_VALUE]>>

\* the visitor asks for values that are held by one child element each; a
\* sequence takes a run of children under one key
OneChildPerValue == access.hint \in ScalarHints \cup {"unit_variant"}

KeysOfAttributes == [i \in DOMAIN AttributeNames(input, 2) |-> [key |-> AttributeNames(input, 2)[i]]]

\* C17: when the iteration over an element ends, the visitor has received
\* the attribute names as keys and then, with a $value field, one key $value
\* per child element or, for a text-only element, a single final key $value
\* whose value is the text of the element; without a $value field it has
\* received the tag names of the child elements
C17_MapKeys ==
    (pc = "end_map" /\ RootContent # <<>> /\ OneChildPerValue) =>
        /\ Keys = KeysOfAttributes \o KeysOfChildren(RootContent[1].children)
        /\ (EmitValue /\ RootContent[1].children = <<>> /\ access.hint = "str") =>
              visited[Len(visited)] = [value |-> RootContent[1].txt]

\* the same for the elements that are closed by an end tag
C17_MapKeys_EndTag ==
    (input[Len(AttributeNames(input, 2)) + 2].type # "XmlCloseEmptyElement") => C17_MapKeys

-----------------------------------------------------------------------------
(* de/mod.rs: SeqAccess.  hint is the shape of the elements the visitor
   asks for; parent is <<map access>> when the sequence is the value of a
   map entry *)

SeqAccess_new(tag_name, hint, parent) ==
    [kind |-> "SeqAccess", tag_name |-> tag_name, hint |-> hint, parent |-> parent]

\* next_element_seed where any start tag is an element of the sequence
RECURSIVE next_element_seed_any_tag(_, _)
next_element_seed_any_tag(d, a) ==
    Try(peek(d), LAMBDA p :
        CASE p.value.type = "OpenStartTag" ->
                SomeOf(Deserialize([d EXCEPT !.map_key = a.tag_name], a.hint))
          [] p.value.type = "Character" /\ is_blank(p.value.text.s) ->
                Try(advance(d), LAMBDA x : next_element_seed_any_tag(x.de, a))
          [] OTHER -> DeOk(d, <<>>))

\* the value is <<element>>, or <<>> for None
RECURSIVE next_element_seed(_, _)
next_element_seed(d, a) ==
    Try(peek(d), LAMBDA p :
        CASE p.value.type = "OpenStartTag" ->
                IF a.tag_name # <<>> /\ p.value.name # a.tag_name[1] THEN DeOk(d, <<>>)
                ELSE SomeOf(Deserialize([d EXCEPT !.map_key = a.tag_name], a.hint))
          [] p.value.type = "Character" /\ is_blank(p.value.text.s) ->
                Try(advance(d), LAMBDA x : next_element_seed(x.de, a))
          [] OTHER -> DeOk(d, <<>>))

ElementHints == {"str", "unit"}

\* deserialize_seq at the top of the fragment, up to the call of visit_seq:
\* the expected tag is the map key, which is taken
DeserializeSeq ==
    /\ pc = "ready"
    /\ \E hint \in ElementHints :
          access' = SeqAccess_new(de.map_key, hint, <<>>)
    /\ de' = [de EXCEPT !.map_key = <<>>]
    /\ ret' = [call |-> "deserialize_seq", ok |-> TRUE, value |-> <<>>]
    /\ pc' = "element"
    /\ UNCHANGED <<visited, DeFrame>>

\* next_value_seed for a visitor that asks a sequence for the child element
\* at the cursor, up to the call of visit_seq
NextValueSeq ==
    /\ pc = "value"
    /\ access.hint = "seq"
    /\ ~access.next_entry_is_dollarvalue
    /\ de.events[de.pos].type = "OpenStartTag"
    /\ \E hint \in ElementHints :
          access' = SeqAccess_new(ValueDeserializer(de, access).map_key, hint,
                                  <<MapAccessAfterValue(de, access)>>)
    /\ de' = [de EXCEPT !.map_key = <<>>]
    /\ ret' = [call |-> "deserialize_seq", ok |-> TRUE, value |-> <<>>]
    /\ pc' = "element"
    /\ UNCHANGED <<visited, DeFrame>>

\* the visitor asks the SeqAccess for the next element; when there is none
\* visit_seq returns, to the caller of deserialize_seq or to
\* next_value_seed, which sets the map key back to None
NextElement ==
    /\ pc = "element"
    /\ \E r \in {next_element_seed(de, access)} :
          /\ ret' = Returned("next_element_seed", r)
          /\ de' = IF r.ok /\ r.value = <<>> /\ access.parent # <<>>
                   THEN [r.de EXCEPT !.map_key = <<>>]
                   ELSE DeAfter(r)
          /\ visited' = IF r.ok /\ r.value # <<>>
                        THEN Append(visited, [element |-> r.value[1]])
                        ELSE visited
          /\ access' = IF r.ok /\ r.value = <<>> /\ access.parent # <<>>
                       THEN access.parent[1]
                       ELSE access
          /\ pc' = IF ~r.ok THEN "failed"
                   ELSE IF r.value # <<>> THEN "element"
                   ELSE IF access.parent # <<>> THEN "key"
                   ELSE "done"
    /\ UNCHANGED DeFrame

\* a visitor that asks for an enum at the top of the fragment, where no map
\* key is recorded
DeserializeEnum ==
    /\ pc = "ready"
    /\ \E hint \in EnumHints :
          /\ access' = [kind |-> "EnumAccess", hint |-> hint]
          /\ \E r \in {Deserialize(de, hint)} :
                /\ de' = DeAfter(r)
                /\ ret' = Returned("deserialize_enum", r)
                /\ pc' = PcAfter(r, "done")
    /\ UNCHANGED <<visited, DeFrame>>

NextDe ==
    \/ FromFragment
    \/ DeserializeBool
    \/ DeserializeStruct
    \/ NextKey
    \/ NextValue
    \/ EndMap
    \/ DeserializeSeq
    \/ NextValueSeq
    \/ NextElement
    \/ DeserializeEnum

SpecDe == InitDe /\ [][NextDe]_vars

-----------------------------------------------------------------------------
(* Properties of the sequence iteration *)

\* the first position from j on that does not hold a blank Character event
RECURSIVE SkipBlank(_, _)
SkipBlank(events, j) ==
    IF /\ j <= Len(events)
       /\ events[j].type = "Character"
       /\ \A i \in DOMAIN events[j].text.s : events[j].text.s[i] \in Whitespace
    THEN SkipBlank(events, j + 1)
    ELSE j

\* the position of the event that closes the element whose start tag is
\* before j, depth counting the elements open at j; 0 when there is none
RECURSIVE CloseOf(_, _, _)
CloseOf(events, j, depth) ==
    IF j > Len(events) THEN 0
    ELSE IF events[j].type = "OpenStartTag" THEN CloseOf(events, j + 1, depth + 1)
    ELSE IF events[j].type \in {"EndTag", "XmlCloseEmptyElement"}
    THEN IF depth = 1 THEN j ELSE CloseOf(events, j + 1, depth - 1)
    ELSE CloseOf(events, j + 1, depth)

\* the event is a start tag the sequence takes as its next element
StartsElement(event) ==
    /\ event.type = "OpenStartTag"
    /\ access.tag_name = <<>> \/ event.name = access.tag_name[1]

\* C19: a next-element request skips the blank Character events at the
\* cursor; on a start tag with the expected name (any start tag when no
\* name is expected) it deserializes one element and the iteration goes
\* on; on any other event the sequence ends and the cursor stays on that
\* event
C19_SeqIteration ==
    [][(pc = "element" /\ ret'.call = "next_element_seed") =>
          LET j == SkipBlank(de.events, de.pos)
          IN  j <= Len(de.events) =>
                IF StartsElement(de.events[j])
                THEN \/ pc' = "failed"
                     \/ /\ pc' = "element"
                        /\ Len(visited') = Len(visited) + 1
                        /\ "element" \in DOMAIN visited'[Len(visited')]
                        /\ de'.pos > j
                        /\ access.hint = "unit" => de'.pos = CloseOf(de.events, j + 1, 1) + 1
                ELSE /\ ret'.ok
                     /\ ret'.value = <<>>
                     /\ pc' \in {"key", "done"}
                     /\ visited' = visited
                     /\ de'.pos = j]_vars

\* the sequence for the map key b took one element b, skipped the blank
\* text after it and ended on the start tag of an element a
C19_Witness ==
    /\ pc = "key"
    /\ access.kind = "MapAccess"
    /\ access.hint = "seq"
    /\ visited = <<[key |-> <<"b">>], [element |-> <<>>]>>
    /\ de.pos = 6
    /\ de.events[5] = Character(CData(<<" ">>))
    /\ de.events[6] = OpenStartTag(<<"a">>)

-----------------------------------------------------------------------------
(* Properties of the enum visit *)

\* the position of the first event after the start tag at events[p] and
\* its attributes
AfterAttributes(events, p) == p + 1 + Len(AttributeNames(events, p + 1))

\* the content of the element whose start tag is at events[p]
ContentAt(events, p) ==
    IF AfterAttributes(events, p) > Len(events) THEN <<>>
    ELSE IF events[AfterAttributes(events, p)].type = "XmlCloseEmptyElement"
    THEN <<[children |-> <<>>, txt |-> <<>>]>>
    ELSE ElementContent(events, AfterAttributes(events, p) + 1, events[p].name,
                        <<>>, <<>>, <<>>)

\* the position of the first start tag after p
RECURSIVE NextStartTag(_, _)
NextStartTag(events, p) ==
    IF p >= Len(events) \/ events[p + 1].type = "OpenStartTag" THEN p + 1
    ELSE NextStartTag(events, p + 1)

\* every element of the fragment is closed, by /> or by an end tag of its
\* name, and there is no other end tag; open holds the names of the
\* elements open at j
RECURSIVE WellFormed(_, _, _)
WellFormed(events, j, open) ==
    IF j > Len(events) THEN open = <<>>
    ELSE IF events[j].type = "OpenStartTag"
    THEN WellFormed(events, j + 1, Append(open, events[j].name))
    ELSE IF events[j].type = "XmlCloseEmptyElement"
    THEN open # <<>> /\ WellFormed(events, j + 1, Take(open, Len(open) - 1))
    ELSE IF events[j].type = "EndTag"
    THEN /\ open # <<>>
         /\ open[Len(open)] = events[j].name
         /\ WellFormed(events, j + 1, Take(open, Len(open) - 1))
    ELSE WellFormed(events, j + 1, open)

\* a step in which a visitor asks the deserializer for an enum
EnumVisit ==
    \/ pc = "ready" /\ ret'.call = "deserialize_enum"
    \/ pc = "value" /\ ret'.call = "next_value_seed" /\ access.hint \in EnumHints

\* the map key that led to the enum: <<key>>, or <<>> when there is none
EnumMapKey == IF pc = "value" THEN ValueDeserializer(de, access).map_key ELSE <<>>

\* the kind of variant the visitor finds
EnumHint == IF pc = "value" THEN access.hint ELSE access'.hint

\* the enum is visited on the start tag of an element, in a fragment whose
\* elements are closed properly
OnElement ==
    /\ ~DollarVisit
    /\ de.events[de.pos].type = "OpenStartTag"
    /\ WellFormed(input, 1, <<>>)

WithinElement == EnumMapKey # <<>> /\ EnumMapKey[1] = de.events[de.pos].name

Children == ContentAt(de.events, de.pos)[1].children

\* the name of the variant by the three cases of the dispatch
VariantName ==
    IF ~WithinElement THEN de.events[de.pos].name
    ELSE IF Children # <<>> THEN Children[1]
    ELSE ContentAt(de.events, de.pos)[1].txt

\* the position of the start tag of the element that is the body
VariantElement ==
    IF ~WithinElement THEN de.pos ELSE NextStartTag(de.events, de.pos)

\* the visit is one of the cases of the dispatch: a text-only element
\* visited within the element named by the map key holds a unit variant
Dispatched ==
    /\ EnumVisit
    /\ OnElement
    /\ EnumHint = "unit_variant" \/ ~WithinElement \/ Children # <<>>

\* what the visit returns and where it leaves the cursor: a unit variant
\* is always found; the variant has the name of the case; the cursor is
\* just after the element that was at the cursor; the string of a newtype
\* variant is the text of the element that named the variant
EnumDispatch ==
    /\ EnumHint = "unit_variant" => ret'.ok
    /\ ret'.ok =>
          /\ ret'.value.variant = VariantName
          /\ de'.pos = CloseOf(de.events, de.pos + 1, 1) + 1
          /\ (/\ EnumHint = "newtype_variant"
              /\ PlainText(de.events, VariantElement + 1,
                           <<de.events[VariantElement].name>>, <<>>) # <<>>) =>
                 ret'.value.body =
                     PlainText(de.events, VariantElement + 1,
                               <<de.events[VariantElement].name>>, <<>>)

\* C18: an enum visited on an element takes the name of its variant from
\* the tag at the cursor when the map key is not that tag (or there is no
\* map key), from the first child element when the map key is that tag and
\* the element has child elements, and from the text of the element when
\* it is text-only; the body is read from the element that named the
\* variant; the cursor ends just after the element that was at the cursor
C18_EnumDispatch == [][Dispatched => EnumDispatch]_vars

\* no element of the fragment is closed by />
NoXmlCloseEmptyElement ==
    \A i \in DOMAIN input : input[i].type # "XmlCloseEmptyElement"

\* the first child element of the element at the cursor comes directly
\* after its start tag
FirstChildLeads ==
    NextStartTag(de.events, de.pos) = AfterAttributes(de.events, de.pos) + 1

\* the same for the fragments without />, when no text comes before the
\* first child of an element visited within the element of the map key
C18_EnumDispatch_ChildFirst ==
    [][(/\ Dispatched
        /\ NoXmlCloseEmptyElement
        /\ (WithinElement /\ Children # <<>>) => FirstChildLeads) => EnumDispatch]_vars

-----------------------------------------------------------------------------
(* Deserialization of fragments that hold an event the deserializer does
   not support: an element a that contains, between some content, an empty
   start tag, an empty end tag, a markup declaration, a processing
   instruction or a marked section.  The text of the processing instruction
   is held as the text of a Character event is, as data, so that the two
   kinds of event can be compared *)

UnsupportedTokens ==
    { <<OpenStartTag(<<>>), CloseStartTag>>,
      <<EndTag(<<>>)>>,
      <<MarkupDeclaration(<<"D">>, <<"x">>)>>,
      <<ProcessingInstruction(CData(<<"<", "?", "x", ">">>))>>,
      <<MarkedSection(<<"C", "D", "A", "T", "A">>, <<"1">>)>>,
      <<MarkedSection(<<"R", "C", "D", "A", "T", "A">>, <<"1">>)>>,
      <<MarkedSection(<<"I", "G", "N", "O", "R", "E">>, <<"1">>)>> }

TokensBefore ==
    { <<>>, <<Character(CData(<<"x">>))>>, <<OpenStartTag(<<"b">>), CloseStartTag>> }

TokensAfter ==
    { <<>>, <<Character(CData(<<"1">>))>>, <<EndTag(<<"b">>)>>,
      <<OpenStartTag(<<"b">>), CloseStartTag, Character(CData(<<"1">>)), EndTag(<<"b">>)>> }

UnsupportedRoots ==
    { <<OpenStartTag(<<"a">>), CloseStartTag>>,
      <<OpenStartTag(<<"a">>), Attribute(<<"b">>, <<CData(<<"B">>)>>), CloseStartTag>> }

UnsupportedFragments ==
    UNION { { root \o before \o unsupported \o after \o close :
                root \in UnsupportedRoots, before \in TokensBefore,
                after \in TokensAfter, close \in { <<>>, <<EndTag(<<"a">>)>> } } :
            unsupported \in UnsupportedTokens }

InitUnsupported ==
    /\ pc = "start"
    /\ input \in UnsupportedFragments
    /\ keywords = Unset
    /\ config = DefaultConfig
    /\ parsed = Unset
    /\ shown = Unset
    /\ reparsed = Unset
    /\ NormIdle
    /\ DeIdle

SpecUnsupported == InitUnsupported /\ [][NextDe]_vars

\* the events the deserializer is said not to support
IsEmptyTag(event) == event.type \in {"OpenStartTag", "EndTag"} /\ event.name = <<>>

IsUnsupported(event) ==
    \/ IsEmptyTag(event)
    \/ event.type \in {"MarkedSection", "ProcessingInstruction", "MarkupDeclaration"}

\* the cursor of a deserializer that is in use is before every event of the
\* fragment that satisfies Rejected, and a call that failed on an event the
\* deserializer does not take failed with an error that carries an event
\* of the fragment that satisfies Rejected
RejectedAtCursor(Rejected(_)) ==
    /\ (de # Unset /\ pc # "failed") =>
          \A j \in DOMAIN input : Rejected(input[j]) => de.pos < j
    /\ (pc = "failed" /\ ret.error.kind \in {"UnsupportedTag", "UnexpectedMarkedSection"}) =>
          /\ ret.error.kind = "UnsupportedTag"
          /\ \E j \in DOMAIN input : Rejected(input[j]) /\ ret.error.tag = input[j]

\* C21: the cursor never comes to rest on or after an empty start tag, an
\* empty end tag, a marked section, a processing instruction or a markup
\* declaration of the fragment: landing on one fails the call with an
\* unsupported error that carries the event
C21_Unsupported == RejectedAtCursor(IsUnsupported)

\* the same for the empty start tags and the empty end tags alone, in the
\* fragments where no other such event comes before them
C21_UnsupportedEmptyTags ==
    (\A j \in DOMAIN input : IsUnsupported(input[j]) => IsEmptyTag(input[j])) =>
        RejectedAtCursor(IsEmptyTag)

\* a call failed on the empty end tag of the fragment
C21_EmptyTagRejected ==
    /\ pc = "failed"
    /\ ret.error = UnsupportedTag(EndTag(<<>>))

-----------------------------------------------------------------------------
(* Properties of pop_elt *)

\* what closing the element on top of the stack comes to, read off the
\* events from position j on: open holds the names of the elements that are
\* open at j, the element to close first.  The value is the position after
\* the event that closes it
RECURSIVE CloseTop(_, _, _)
CloseTop(events, j, open) ==
    IF j > Len(events) THEN [ok |-> FALSE, error |-> UnexpectedEof]
    ELSE CASE events[j].type = "OpenStartTag" ->
                CloseTop(events, j + 1, Append(open, events[j].name))
           [] events[j].type = "XmlCloseEmptyElement" ->
                IF Len(open) = 1 THEN [ok |-> TRUE, value |-> j + 1]
                ELSE CloseTop(events, j + 1, Take(open, Len(open) - 1))
           [] events[j].type = "EndTag" ->
                IF events[j].name # open[Len(open)]
                THEN [ok |-> FALSE,
                      error |-> MismatchedCloseTag(open[Len(open)], events[j].name)]
                ELSE IF Len(open) = 1 THEN [ok |-> TRUE, value |-> j + 1]
                ELSE CloseTop(events, j + 1, Take(open, Len(open) - 1))
           [] OTHER -> CloseTop(events, j + 1, open)

\* r, the result of pop_elt on d, is what x, the result of CloseTop, says
PopEltAgrees(d, r, x) ==
    /\ r.ok = x.ok
    /\ r.ok => /\ r.de.pos = x.value
               /\ r.de.stack = Take(d.stack, Len(d.stack) - 1)
               /\ r.de.events = d.events
    /\ ~r.ok => r.error = x.error

\* C22: with an element on the stack, pop_elt moves the cursor past the
\* event that closes that element, an XmlCloseEmptyElement or an EndTag,
\* passing over the nested elements, and takes the element off the stack;
\* it fails with MismatchedCloseTag, holding the name of the innermost open
\* element and the name of the end tag, on an end tag of another name, and
\* with UnexpectedEof when the events run out
C22_PopElt ==
    (de # Unset /\ de.stack # <<>>) =>
        PopEltAgrees(de, pop_elt(de),
                     CloseTop(de.events, de.pos, <<tag_at_stack_pos(de, Len(de.stack))>>))

\* a unit element a was taken from the fragment <a><b>1</b><b/></a>:
\* pop_elt passed over the two nested elements and left the cursor after
\* the end tag of a
C22_Witness ==
    /\ pc = "element"
    /\ access.hint = "unit"
    /\ ret.call = "next_element_seed"
    /\ input = <<OpenStartTag(<<"a">>), CloseStartTag,
                 OpenStartTag(<<"b">>), CloseStartTag, Character(CData(<<"1">>)),
                 EndTag(<<"b">>), OpenStartTag(<<"b">>), XmlCloseEmptyElement,
                 EndTag(<<"a">>)>>
    /\ de.pos = 10
    /\ de.stack = <<>>
    /\ visited = <<[element |-> <<>>]>>

-----------------------------------------------------------------------------
(* Properties of normalize_end_tags: elements closed by /> *)

\* out is the fragment events with every XmlCloseEmptyElement replaced by
\* CloseStartTag and an EndTag of the name open directly after it, and with
\* EndTag events added elsewhere; open is the name of the last OpenStartTag
\* passed, <<>> before the first
RECURSIVE XmlEmptyClosed(_, _, _)
XmlEmptyClosed(events, out, open) ==
    IF events = <<>> THEN \A k \in DOMAIN out : out[k].type = "EndTag"
    ELSE IF out = <<>> THEN FALSE
    ELSE IF Head(events).type = "XmlCloseEmptyElement"
    THEN IF Head(out).type = "EndTag" THEN XmlEmptyClosed(events, Tail(out), open)
         ELSE /\ Len(out) >= 2
              /\ out[1] = CloseStartTag
              /\ out[2] = EndTag(open)
              /\ XmlEmptyClosed(Tail(events), Drop(out, 2), open)
    ELSE IF Head(out) = Head(events)
    THEN XmlEmptyClosed(Tail(events), Tail(out),
                        IF Head(events).type = "OpenStartTag" THEN Head(events).name
                        ELSE open)
    ELSE Head(out).type = "EndTag" /\ XmlEmptyClosed(events, Tail(out), open)

\* C23: in the result of a successful normalize_end_tags every
\* XmlCloseEmptyElement of the fragment has become a CloseStartTag that is
\* directly followed by an EndTag with the name of its OpenStartTag, whatever
\* end tags follow the element, and no XmlCloseEmptyElement is left
C23_XmlEmptyElements ==
    (pc = "done" /\ outcome.ok) =>
        /\ XmlEmptyClosed(input, outcome.events, <<>>)
        /\ \A k \in DOMAIN outcome.events : outcome.events[k].type # "XmlCloseEmptyElement"

\* <a><a/></a>: the element closed by /> got an end tag of its own, the end
\* tag that follows it closes the outer element
C23_Witness ==
    /\ pc = "done"
    /\ input = <<OpenStartTag(<<"a">>), CloseStartTag, OpenStartTag(<<"a">>),
                 XmlCloseEmptyElement, EndTag(<<"a">>)>>
    /\ outcome = [ok |-> TRUE,
                  events |-> <<OpenStartTag(<<"a">>), CloseStartTag, OpenStartTag(<<"a">>),
                               CloseStartTag, EndTag(<<"a">>), EndTag(<<"a">>)>>]

-----------------------------------------------------------------------------
(* Properties of normalize_end_tags: unpaired end tags *)

\* the positions of the end tags of events[1..i] that the reverse pass over
\* the whole fragment leaves without a start tag, the earliest last: pending
\* holds the positions of the end tags after i that wait for a start tag,
\* xml_closed says that the event after i belongs to a start tag closed by />
RECURSIVE PendingEndTags(_, _, _, _)
PendingEndTags(events, i, pending, xml_closed) ==
    IF i = 0 THEN pending
    ELSE CASE events[i].type = "EndTag" ->
                PendingEndTags(events, i - 1, Append(pending, i), xml_closed)
           [] events[i].type = "XmlCloseEmptyElement" ->
                PendingEndTags(events, i - 1, pending, TRUE)
           [] events[i].type = "OpenStartTag" ->
                PendingEndTags(events, i - 1,
                               IF /\ ~xml_closed
                                  /\ pending # <<>>
                                  /\ events[pending[Len(pending)]].name = events[i].name
                               THEN Take(pending, Len(pending) - 1)
                               ELSE pending,
                               FALSE)
           [] OTHER -> PendingEndTags(events, i - 1, pending, xml_closed)

Pending == PendingEndTags(input, Len(input), <<>>, FALSE)

NoEmptyTags ==
    \A i \in DOMAIN input : input[i].type \in {"OpenStartTag", "EndTag"} => input[i].name # <<>>

\* some end tag has no start tag of its name before it
EndTagWithoutStartTag ==
    \E i \in DOMAIN input :
        /\ input[i].type = "EndTag"
        /\ ~\E j \in 1..(i - 1) : input[j].type = "OpenStartTag" /\ input[j].name = input[i].name

\* C24: on a fragment without empty tags normalize_end_tags fails, with
\* UnpairedEndTag, exactly when the reverse pass leaves end tags on its
\* stack, which it does whenever an end tag has no start tag of its name
\* before it; the name reported is the one on top of the stack, the name of
\* the earliest end tag of the fragment that was left without a start tag
C24_UnpairedEndTag ==
    (pc = "done" /\ NoEmptyTags) =>
        /\ outcome.ok <=> stack = <<>>
        /\ outcome.ok <=> Pending = <<>>
        /\ EndTagWithoutStartTag => ~outcome.ok
        /\ ~outcome.ok =>
              /\ outcome.err = "UnpairedEndTag"
              /\ outcome.name = stack[Len(stack)]
              /\ \A k \in DOMAIN Pending : Pending[Len(Pending)] <= Pending[k]
              /\ outcome.name = input[Pending[Len(Pending)]].name

\* </b><a></a></a>: the second end tag a found its start tag, the last one
\* and the end tag b did not, and b, the earlier of the two, is reported
C24_Witness ==
    /\ pc = "done"
    /\ input = <<EndTag(<<"b">>), OpenStartTag(<<"a">>), CloseStartTag,
                 EndTag(<<"a">>), EndTag(<<"a">>)>>
    /\ stack = <<<<"a">>, <<"b">>>>
    /\ outcome = [ok |-> FALSE, err |-> "UnpairedEndTag", name |-> <<"b">>]

-----------------------------------------------------------------------------
(* Properties of normalize_end_tags: empty tags *)

HasEmptyTag ==
    \E i \in DOMAIN input : input[i].type \in {"OpenStartTag", "EndTag"} /\ input[i].name = <<>>

\* C25: normalize_end_tags ends with the error EmptyTagNotSupported, and
\* returns no fragment, on every fragment that holds an OpenStartTag or an
\* EndTag with an empty name, wherever the tag stands and whatever end tags
\* are unpaired
C25_EmptyTags ==
    (pc = "done" /\ HasEmptyTag) => outcome = [ok |-> FALSE, err |-> "EmptyTagNotSupported"]

\* </></a>: the run ended on the empty end tag with the unpaired end tag a
\* on its stack
C25_Witness ==
    /\ pc = "done"
    /\ input = <<EndTag(<<>>), EndTag(<<"a">>)>>
    /\ stack = <<<<"a">>>>
    /\ outcome = [ok |-> FALSE, err |-> "EmptyTagNotSupported"]

-----------------------------------------------------------------------------
(* Display of an attribute: the event is an attribute b with no value or
   with a value made of quotes, ampersands and the letter x *)

MaxDisplayLen == 4

DisplayChars == {"\"", "'", "&", "x"}

DisplayValues == UNION { [1..k -> DisplayChars] : k \in 0..MaxDisplayLen }

InitDisplay ==
    /\ pc = "start"
    /\ input \in { Attribute(<<"b">>, <<>>) }
                 \cup { Attribute(<<"b">>, <<value>>) : value \in DisplayValues }
    /\ keywords = Unset
    /\ config = DefaultConfig
    /\ parsed = Unset
    /\ shown = Unset
    /\ reparsed = Unset
    /\ NormIdle
    /\ DeIdle

\* event.to_string()
DisplayEvent ==
    /\ pc = "start"
    /\ shown' = display_event(input)
    /\ pc' = "shown"
    /\ UNCHANGED <<input, keywords, config, parsed, reparsed, NormVars, DeVars>>

NextDisplay == DisplayEvent

SpecDisplay == InitDisplay /\ [][NextDisplay]_vars

Holds(str, c) == \E i \in DOMAIN str : str[i] = c

\* the value with each " written as &#34; and each & as &#38;
QuotesAndAmpersandsEscaped(str) ==
    Flatten([i \in DOMAIN str |->
                 IF str[i] = "\"" THEN <<"&", "#", "3", "4", ";">>
                 ELSE IF str[i] = "&" THEN <<"&", "#", "3", "8", ";">>
                 ELSE <<str[i]>>])

\* the text is the name, =, and something between two quotes q
InQuotes(str, q) ==
    /\ StartsWith(str, input.name \o <<"=", q>>)
    /\ Len(str) >= Len(input.name) + 3
    /\ str[Len(str)] = q

\* C26: the value of an attribute is shown in double quotes, unless it holds
\* a double quote and no single quote: then it is shown in single quotes;
\* a value that holds both quotes is shown in double quotes with each "
\* written as &#34; and each & as &#38;
C26_AttributeQuotes ==
    (pc = "shown" /\ input.value # <<>>) =>
        LET value == input.value[1] IN
        IF Holds(value, "\"") /\ Holds(value, "'")
        THEN shown = input.name \o <<"=", "\"">> \o QuotesAndAmpersandsEscaped(value) \o <<"\"">>
        ELSE IF Holds(value, "\"")
        THEN InQuotes(shown, "'")
        ELSE InQuotes(shown, "\"")

\* C26, amended: the value is shown as it is, in double quotes when it holds
\* no double quote and no ampersand, in single quotes when it holds a double
\* quote but no single quote and no ampersand; a value that holds an
\* ampersand, or both quotes, is shown in double quotes with each " written
\* as &#34; and each & as &#38;
C26_AttributeQuotes_Amended ==
    (pc = "shown" /\ input.value # <<>>) =>
        LET value == input.value[1] IN
        IF Holds(value, "&") \/ (Holds(value, "\"") /\ Holds(value, "'"))
        THEN shown = input.name \o <<"=", "\"">> \o QuotesAndAmpersandsEscaped(value) \o <<"\"">>
        ELSE IF Holds(value, "\"")
        THEN shown = input.name \o <<"=", "'">> \o value \o <<"'">>
        ELSE shown = input.name \o <<"=", "\"">> \o value \o <<"\"">>

\* the value &" holds a double quote and no single quote, and is shown in
\* double quotes, escaped
C26_Witness ==
    /\ pc = "shown"
    /\ input = Attribute(<<"b">>, <<<<"&", "\"">>>>)
    /\ shown = <<"b", "=", "\"", "&", "#", "3", "8", ";", "&", "#", "3", "4", ";", "\"">>

-----------------------------------------------------------------------------
(* transforms/transform.rs: a Transform that records insertions and removals
   for a fragment of character events and is then applied to it *)

MaxEvents == 2
MaxOperations == 2
MaxIndex == 3

TransformFragments ==
    UNION { [1..k -> {Character(<<"x">>), Character(<<"y">>)}] : k \in 0..MaxEvents }

InsertedEvents == {EndTag(<<"a">>), EndTag(<<"b">>)}

InitTransform ==
    /\ pc = "recording"
    /\ input = Unset
    /\ keywords = Unset
    /\ config = DefaultConfig
    /\ parsed = Unset
    /\ shown = Unset
    /\ reparsed = Unset
    /\ fragment \in TransformFragments
    /\ idx = 0
    /\ stack = <<>>
    /\ next_insertion_point = 0
    /\ end_xml_empty_element = <<>>
    /\ insertions = <<>>
    /\ deletions = <<>>
    /\ outcome = Unset
    /\ DeIdle

TransformFrame == <<DocVars, idx, stack, next_insertion_point, end_xml_empty_element>>

\* Transform::insert_at
InsertAt ==
    /\ pc = "recording"
    /\ Len(insertions) < MaxOperations
    /\ \E index \in 0..MaxIndex, event \in InsertedEvents :
          insertions' = Append(insertions, [index |-> index, event |-> event])
    /\ UNCHANGED <<pc, fragment, deletions, outcome, TransformFrame>>

\* Transform::remove_at
RemoveAt ==
    /\ pc = "recording"
    /\ Len(deletions) < MaxOperations
    /\ \E index \in 0..MaxIndex : deletions' = Append(deletions, index)
    /\ UNCHANGED <<pc, fragment, insertions, outcome, TransformFrame>>

\* Transform::apply
Apply ==
    /\ pc = "recording"
    /\ outcome' = apply(insertions, deletions, fragment)
    /\ pc' = "done"
    /\ UNCHANGED <<fragment, insertions, deletions, TransformFrame>>

NextTransform == InsertAt \/ RemoveAt \/ Apply

SpecTransform == InitTransform /\ [][NextTransform]_vars

\* the events recorded by insert_at(i, _), in the order of the calls
InsertedAt(i) ==
    LET at == SelectSeq(insertions, LAMBDA ins : ins.index = i)
    IN  [k \in DOMAIN at |-> at[k].event]

Removed(i) == \E k \in DOMAIN deletions : deletions[k] = i

\* what is emitted for the original index i
EmittedAt(i) == InsertedAt(i) \o (IF Removed(i) THEN <<>> ELSE <<fragment[i + 1]>>)

\* the insertions at the indices from i to MaxIndex, in ascending order
RECURSIVE InsertedFrom(_)
InsertedFrom(i) == IF i > MaxIndex THEN <<>> ELSE InsertedAt(i) \o InsertedFrom(i + 1)

\* C27: the result of apply is, for each index of the original fragment in
\* order, the events inserted at that index in the order of the calls and
\* then the original event unless the index was removed, followed by the
\* insertions at the indices from the length of the fragment on, in
\* ascending order of index; with no operation recorded it is the fragment
C27_TransformApply ==
    pc = "done" =>
        /\ outcome = Flatten([k \in 1..Len(fragment) |-> EmittedAt(k - 1)])
                     \o InsertedFrom(Len(fragment))
        /\ (insertions = <<>> /\ deletions = <<>>) => outcome = fragment

\* two events were inserted at index 1, which was removed twice: the
\* inserted events are kept, in the order of the calls, and the original
\* event 1 is gone
C27_Witness ==
    /\ pc = "done"
    /\ fragment = <<Character(<<"x">>), Character(<<"y">>)>>
    /\ insertions = <<[index |-> 1, event |-> EndTag(<<"b">>)],
                      [index |-> 1, event |-> EndTag(<<"a">>)]>>
    /\ deletions = <<1, 1>>
    /\ outcome = <<Character(<<"x">>), EndTag(<<"b">>), EndTag(<<"a">>)>>

-----------------------------------------------------------------------------
(* Properties of consume_text *)

\* the text of the element whose content starts at events[j] and the
\* position after its end tag: <<[txt, next]>>, with the Character payloads
\* of the element and of its descendants in document order; <<>> when the
\* element has no end tag of its own or a descendant is not closed properly.
\* open holds the names of the elements open at j, a descendant closed by />
\* has no text
RECURSIVE ElementText(_, _, _, _)
ElementText(events, j, open, acc) ==
    IF j > Len(events) THEN <<>>
    ELSE CASE events[j].type = "Character" ->
                ElementText(events, j + 1, open, acc \o events[j].text.s)
           [] events[j].type = "OpenStartTag" ->
                ElementText(events, j + 1, Append(open, events[j].name), acc)
           [] events[j].type = "XmlCloseEmptyElement" ->
                IF Len(open) = 1 THEN <<>>
                ELSE ElementText(events, j + 1, Take(open, Len(open) - 1), acc)
           [] events[j].type = "EndTag" ->
                IF events[j].name # open[Len(open)] THEN <<>>
                ELSE IF Len(open) = 1 THEN <<[txt |-> acc, next |-> j + 1]>>
                ELSE ElementText(events, j + 1, Take(open, Len(open) - 1), acc)
           [] OTHER -> ElementText(events, j + 1, open, acc)

\* the deserializer is in use with its cursor on an event of the given type
\* and no accumulated text to hand out
CursorOn(type) ==
    /\ de # Unset
    /\ de.pos <= Len(de.events)
    /\ de.accumulated_text = <<>>
    /\ de.events[de.pos].type = type

\* r, the result of consume_text on de, returned txt and left the cursor at
\* next
ConsumedTo(r, txt, next) ==
    /\ r.ok
    /\ r.value = txt
    /\ r.de.pos = next
    /\ r.de.stack = de.stack

TextOfElementAtCursor ==
    ElementText(de.events, de.pos + 1, <<de.events[de.pos].name>>, <<>>)

\* C28: on the start tag of an element that has its end tag, consume_text
\* returns the Character payloads of the element and its descendants in
\* document order and leaves the cursor on the event after the end tag of
\* the element; on an attribute it returns the value of the attribute, the
\* empty string when it has none, and moves the cursor by one event
C28_ConsumeText ==
    /\ CursorOn("Attribute") =>
          ConsumedTo(consume_text(de), AttributeStr(de.events[de.pos]), de.pos + 1)
    /\ (CursorOn("OpenStartTag") /\ TextOfElementAtCursor # <<>>) =>
          ConsumedTo(consume_text(de), TextOfElementAtCursor[1].txt,
                     TextOfElementAtCursor[1].next)

\* the same for the elements none of whose descendants is closed by />
C28_ConsumeText_EndTags ==
    /\ CursorOn("Attribute") =>
          ConsumedTo(consume_text(de), AttributeStr(de.events[de.pos]), de.pos + 1)
    /\ (/\ CursorOn("OpenStartTag")
        /\ PlainText(de.events, de.pos + 1, <<de.events[de.pos].name>>, <<>>) # <<>>) =>
          ConsumedTo(consume_text(de), TextOfElementAtCursor[1].txt,
                     TextOfElementAtCursor[1].next)

\* the text 1 of the element a of <a><b>1</b></a>, held by its descendant b,
\* was read as the boolean true, and the cursor is after the fragment
C28_TextOfDescendants ==
    /\ pc # "start"
    /\ ret.call = "deserialize_bool"
    /\ ret.ok
    /\ de.pos = 8
    /\ de.stack = <<>>
    /\ input = <<OpenStartTag(<<"a">>), CloseStartTag, OpenStartTag(<<"b">>),
                 CloseStartTag, Character(CData(<<"1">>)), EndTag(<<"b">>),
                 EndTag(<<"a">>)>>

-----------------------------------------------------------------------------
(* Properties of normalize_end_tags: the events of the fragment are kept *)

\* the fragment with every XmlCloseEmptyElement replaced by CloseStartTag
Rewritten(events) ==
    [k \in DOMAIN events |->
        IF events[k].type = "XmlCloseEmptyElement" THEN CloseStartTag ELSE events[k]]

\* the events of out that are left over when events is read off out from
\* left to right, each event taken at the first place where it stands;
\* ok is FALSE when events cannot be read off out in this order. Whichever
\* places are taken, the same events are left over
RECURSIVE Added(_, _, _)
Added(events, out, acc) ==
    IF out = <<>> THEN [ok |-> events = <<>>, events |-> acc]
    ELSE IF events # <<>> /\ Head(out) = Head(events)
    THEN Added(Tail(events), Tail(out), acc)
    ELSE Added(events, Tail(out), Append(acc, Head(out)))

\* the number of events of the type and name
Occurrences(events, type, nm) ==
    Cardinality({k \in DOMAIN events : events[k].type = type /\ events[k].name = nm})

TagEvents(events) == {k \in DOMAIN events : events[k].type \in {"OpenStartTag", "EndTag"}}

\* the names of the tags of the fragment
TagNames(events) == {events[k].name : k \in TagEvents(events)}

\* the start tags of a name left without an end tag of the fragment: in a
\* fragment that normalizes, every end tag is paired with a start tag
Unpaired(events, nm) ==
    Occurrences(events, "OpenStartTag", nm) - Occurrences(events, "EndTag", nm)

\* C29: a successful normalize_end_tags removes, reorders and alters no event
\* of the fragment except that it rewrites XmlCloseEmptyElement to
\* CloseStartTag: the result without the end tags it added is the rewritten
\* fragment, and it added exactly one EndTag for each OpenStartTag that is
\* not paired with an EndTag of the fragment. A fragment in which every start
\* tag has its matching end tag and no XmlCloseEmptyElement occurs is
\* returned unchanged
C29_EventsKept ==
    /\ (pc = "done" /\ outcome.ok) =>
          LET added == Added(Rewritten(input), outcome.events, <<>>) IN
          /\ added.ok
          /\ \A k \in DOMAIN added.events :
                /\ added.events[k].type = "EndTag"
                /\ added.events[k].name \in TagNames(input)
          /\ \A nm \in TagNames(input) :
                Occurrences(added.events, "EndTag", nm) = Unpaired(input, nm)
    /\ (/\ pc = "done"
        /\ NoEmptyTags
        /\ Balanced(input, <<>>)
        /\ \A k \in DOMAIN input : input[k].type # "XmlCloseEmptyElement") =>
          outcome = [ok |-> TRUE, events |-> input]

\* <a><b c/></a><a>: the end tag of the fragment is kept, the /> is
\* rewritten, and the elements b and the second a get an end tag each
C29_Witness ==
    /\ pc = "done"
    /\ input = <<OpenStartTag(<<"a">>), CloseStartTag,
                 OpenStartTag(<<"b">>), Attribute(<<"c">>, <<>>), XmlCloseEmptyElement,
                 EndTag(<<"a">>), OpenStartTag(<<"a">>), CloseStartTag>>
    /\ outcome = [ok |-> TRUE,
                  events |-> <<OpenStartTag(<<"a">>), CloseStartTag,
                               OpenStartTag(<<"b">>), Attribute(<<"c">>, <<>>), CloseStartTag,
                               EndTag(<<"b">>), EndTag(<<"a">>),
                               OpenStartTag(<<"a">>), CloseStartTag, EndTag(<<"a">>)>>]

\* a fragment with end tags for all its elements was normalized
C29_Unchanged ==
    /\ pc = "done"
    /\ input = <<OpenStartTag(<<"a">>), CloseStartTag, OpenStartTag(<<"b">>),
                 Attribute(<<"c">>, <<>>), CloseStartTag, EndTag(<<"b">>), EndTag(<<"a">>)>>
    /\ outcome = [ok |-> TRUE, events |-> input]

-----------------------------------------------------------------------------
(* Properties of the element stack and the cursor *)

\* check_stack_size: the debug assertion passes
check_stack_size(d, expected_size) == Len(d.stack) = expected_size

\* the size the stack had when the visit that is under way recorded it: at
\* the top of the fragment, which from_fragment starts with an empty stack,
\* in the MapAccess that do_map builds after push_elt, and in the SeqAccess
\* of a sequence at the top or of the value of a map entry
stack_size ==
    CASE pc \in {"ready", "done"} -> 0
      [] pc \in {"key", "value", "end_map"} -> 1
      [] pc = "element" -> IF access.parent # <<>> THEN 1 ELSE 0

InVisit == pc \in {"ready", "key", "value", "end_map", "element", "done"}

\* C30: on a fragment that parse can produce, between the calls a visitor
\* makes and after every successful map, sequence, enum, unit and text
\* visit the element stack has the length it had before the visit, however
\* many entries or elements were consumed: no check_stack_size assertion
\* fires; the cursor never goes beyond the end of the events; and past the
\* last event advance and peek return UnexpectedEof, no call panics
C30_StackDiscipline ==
    /\ InVisit => check_stack_size(de, stack_size)
    /\ de # Unset =>
          /\ de.pos <= Len(de.events) + 1
          /\ de.pos = Len(de.events) + 1 =>
                /\ peek(de) = DeErr(UnexpectedEof)
                /\ advance(de) = DeErr(UnexpectedEof)
    /\ (pc # "start" /\ ~ret.ok) => ret.error.kind # "Panic"

\* a map visit of <a b="x"><b>1</b><b/></a> that took three entries, two of
\* them child elements, has ended: the stack is empty again and the cursor
\* is past the last event
C30_Witness ==
    /\ pc = "done"
    /\ ret.call = "pop_elt"
    /\ ret.ok
    /\ input = <<OpenStartTag(<<"a">>), Attribute(<<"b">>, <<CData(<<"x">>)>>), CloseStartTag,
                 OpenStartTag(<<"b">>), CloseStartTag, Character(CData(<<"1">>)),
                 EndTag(<<"b">>), OpenStartTag(<<"b">>), XmlCloseEmptyElement,
                 EndTag(<<"a">>)>>
    /\ Len(visited) = 6
    /\ de.stack = <<>>
    /\ de.pos = Len(input) + 1

=============================================================================
